---- MODULE Spec2Model ----
(***************************************************************************)
(* A model of the document segmentation and lexical retrieval code of      *)
(* Sophiallm: embeddings/text_processor.py, embeddings/book_processor.py,  *)
(* embeddings/interactive_rag.py, embeddings/offline_test.py,              *)
(* embeddings/vertex_embeddings.py and frontend/api_server.py.             *)
(*                                                                         *)
(* A Python str is a sequence of one-character strings.  Python indices    *)
(* are 0-based, TLA+ sequences 1-based: the operators Py* do the shift.    *)
(***************************************************************************)
EXTENDS Integers, Sequences, FiniteSets, TLC

VARIABLES
    \* TextProcessor.chunk_text: its arguments, its locals, its position
    text, chunk_size, overlap, start, chunks, pc,
    \* history: the (start, len(chunks)) pairs the while loop has begun a pass at
    visited,
    \* the retrievers (api_server.chat, interactive_rag.main): which program
    \* runs, the question asked, the loaded chunk store, search_books' top_k
    \* and result, what the caller does with the result, and its position
    app, question, store, top_k, results, answer, rpc,
    \* simple_text_similarity: its two arguments and what each of its three
    \* copies has returned for them (a function on the copies called so far)
    sim_query, sim_text, sim_scores,
    \* BookProcessor.process_books: its argument, the tokenizer of its
    \* TextProcessor, the position of its for loop, its list, its position
    book_files, encoding, file_idx, all_chunks, bpc,
    \* history: what process_book_file returned or raised for each file so far
    file_results,
    \* TextProcessor.extract_chapters: its argument, its return, its position
    document, extracted, epc,
    \* TextProcessor.validate_chunks: its argument, its return, its position
    candidates, valid_chunks, vpc,
    \* is_quality_chunk: its argument, its return, its position
    quality_chunk, verdict, qpc,
    \* VertexEmbeddings.generate_embeddings: its arguments, the start i of the
    \* batch of its for loop, its list, its position
    embed_texts, batch_size, batch_i, all_embeddings, gpc,
    \* history: what the embedding service answered for each batch so far
    responses,
    \* VertexEmbeddings.upsert_embeddings and search_similar: the chunks and
    \* the embeddings to upsert, the datapoint ids held by the index, the
    \* results of the search, and the position
    upsert_chunks, upsert_vectors, datapoint_ids, search_results, ipc

chunkerVars == <<text, chunk_size, overlap, start, chunks, pc, visited>>
retrieverVars == <<app, question, store, top_k, results, answer, rpc>>
similarityVars == <<sim_query, sim_text, sim_scores>>
booksVars == <<book_files, encoding, file_idx, all_chunks, bpc, file_results>>
chaptersVars == <<document, extracted, epc>>
validatorVars == <<candidates, valid_chunks, vpc>>
qualityVars == <<quality_chunk, verdict, qpc>>
embeddingsVars == <<embed_texts, batch_size, batch_i, all_embeddings, gpc, responses>>
indexVars == <<upsert_chunks, upsert_vectors, datapoint_ids, search_results, ipc>>
vars == <<text, chunk_size, overlap, start, chunks, pc, visited,
          app, question, store, top_k, results, answer, rpc,
          sim_query, sim_text, sim_scores,
          book_files, encoding, file_idx, all_chunks, bpc, file_results,
          document, extracted, epc,
          candidates, valid_chunks, vpc,
          quality_chunk, verdict, qpc,
          embed_texts, batch_size, batch_i, all_embeddings, gpc, responses,
          upsert_chunks, upsert_vectors, datapoint_ids, search_results, ipc>>

----------------------------------------------------------------------------
(* Python str primitives *)

Max(a, b) == IF a >= b THEN a ELSE b
Min(a, b) == IF a <= b THEN a ELSE b

\* the characters str.strip() and str.split() treat as whitespace
Whitespace == {" ", "\n", "\t", "\r"}

RECURSIVE LStrip(_)
LStrip(s) ==
    IF s = <<>> THEN s
    ELSE IF Head(s) \in Whitespace THEN LStrip(Tail(s)) ELSE s

RECURSIVE RStrip(_)
RStrip(s) ==
    IF s = <<>> THEN s
    ELSE IF s[Len(s)] \in Whitespace THEN RStrip(SubSeq(s, 1, Len(s) - 1)) ELSE s

\* s.strip()
Strip(s) == RStrip(LStrip(s))

\* s[a:b] with Python's treatment of negative and out-of-range bounds
PyBound(s, i) == IF i < 0 THEN Max(i + Len(s), 0) ELSE Min(i, Len(s))
PySlice(s, a, b) == SubSeq(s, PyBound(s, a) + 1, PyBound(s, b))

\* s[i] is defined for -len(s) <= i < len(s); anything else is an IndexError
PyIndexOk(s, i) == -Len(s) <= i /\ i < Len(s)
PyIndex(s, i) == IF i < 0 THEN <<s[Len(s) + i + 1]>> ELSE <<s[i + 1]>>

----------------------------------------------------------------------------
(* embeddings/config.py *)

CHUNK_SIZE == 1000
CHUNK_OVERLAP == 200
MAX_CHUNK_SIZE == 8000

----------------------------------------------------------------------------
(* TextProcessor.chunk_text *)

\* the look-back distance of the sentence-boundary search
SentenceLookback == 200
\* a trimmed window is kept only when it is longer than this
MinChunkLen == 50

\* sentence_endings = ['.', '!', '?', '\n\n']; text[i] is one character, so
\* the two-character entry is compared like the others and never equals it
sentence_endings == { <<".">>, <<"!">>, <<"?">>, <<"\n", "\n">> }

\* for i in range(end, search_start, -1): if text[i] in sentence_endings
\* The result is the first matching i of the descending scan, "none" when the
\* range is exhausted, "IndexError" when the scan comes to an i < -len(text)
\* before it matches (the caller has end < len(text), so no i is too large).
SentenceScan(t, end, search_start) ==
    LET lowest == Max(search_start + 1, -Len(t))
        hits == { i \in lowest..end : PyIndex(t, i) \in sentence_endings }
    IN  IF hits # {}
        THEN [kind |-> "found", at |-> CHOOSE i \in hits : \A j \in hits : j <= i]
        ELSE IF search_start < end /\ search_start + 1 < -Len(t)
        THEN [kind |-> "IndexError", at |-> -Len(t) - 1]
        ELSE [kind |-> "none", at |-> 0]

\* line 46 searching the whole window
SearchStart_WholeWindow(st, size) == st

\* lines 41-52: the end of the window that starts at st
SearchStart(st, size) == Max(st + size - SentenceLookback, st)

WindowEnd(t, st, size) ==
    LET end == st + size
    IN  IF end < Len(t)
        THEN LET hit == SentenceScan(t, end, SearchStart(st, size))
             IN  CASE hit.kind = "found" -> [kind |-> "ok", end |-> hit.at + 1]
                   [] hit.kind = "none" -> [kind |-> "ok", end |-> end]
                   [] OTHER -> [kind |-> "IndexError", end |-> end]
        ELSE [kind |-> "ok", end |-> end]

\* line 54 without the .strip()
WindowChunk_NoStrip(t, st, end) == PySlice(t, st, end)

\* line 54
WindowChunk(t, st, end) == Strip(PySlice(t, st, end))

\* line 57
KeepChunk(chunk) == Len(chunk) > MinChunkLen

\* line 61 without the overlap
NextStart_NoOverlap(end, ov) == end

\* line 61 moving one character further
NextStart_SkipsOne(end, ov) == end - ov + 1

\* line 61
NextStart(end, ov) == end - ov

\* One pass through the body of the while loop (lines 40-63) from the state
\* [start, chunks]: the state after it and where control goes.
ChunkIteration(t, size, ov, st, acc) ==
    LET w == WindowEnd(t, st, size)
    IN  IF w.kind = "IndexError"
        THEN [pc |-> "raised", start |-> st, chunks |-> acc]
        ELSE LET chunk == WindowChunk(t, st, w.end)
                 acc2 == IF KeepChunk(chunk) THEN Append(acc, chunk) ELSE acc
                 st2 == NextStart(w.end, ov)
             IN  [pc |-> IF st2 >= Len(t) THEN "returned" ELSE "loop",
                  start |-> st2, chunks |-> acc2]

\* the longest list of chunks the model follows a run of chunk_text to
MaxChunks == 6

\* lines 32-37: the guard on blank text and the initialisation of the locals
ChunkTextCall ==
    /\ pc = "call"
    /\ IF Strip(text) = <<>>
       THEN pc' = "returned"
       ELSE pc' = "loop"
    /\ start' = 0
    /\ chunks' = <<>>
    /\ UNCHANGED <<text, chunk_size, overlap, visited>>
    /\ UNCHANGED <<retrieverVars, similarityVars, booksVars, chaptersVars, validatorVars, qualityVars,
                   embeddingsVars, indexVars>>

\* lines 39-63: one iteration of the while loop.  chunks only grows, so a
\* pass that begins at a (start, len(chunks)) pair an earlier pass began at
\* begins in the very state of that pass: the loop, which is deterministic,
\* repeats for ever.  The model records that as pc = "diverged".
ChunkTextIterate ==
    /\ pc = "loop"
    /\ start < Len(text)
    /\ LET r == ChunkIteration(text, chunk_size, overlap, start, chunks)
           seen == visited \cup { <<start, Len(chunks)>> }
       IN  IF Len(r.chunks) > MaxChunks
           THEN \* the list outgrows the model: the run is followed no further
                pc' = "overflow" /\ UNCHANGED <<start, chunks, visited>>
           ELSE /\ pc' = IF r.pc = "loop" /\ <<r.start, Len(r.chunks)>> \in seen
                         THEN "diverged" ELSE r.pc
                /\ start' = r.start
                /\ chunks' = r.chunks
                /\ visited' = seen
    /\ UNCHANGED <<text, chunk_size, overlap>>
    /\ UNCHANGED <<retrieverVars, similarityVars, booksVars, chaptersVars, validatorVars, qualityVars,
                   embeddingsVars, indexVars>>

----------------------------------------------------------------------------
(* Inputs of the chunker *)

\* a text is a concatenation of at most MaxPieces pieces
MaxPieces == 4

Letters(n) == [i \in 1..n |-> "a"]

Pieces == { Letters(60), Letters(9), <<".">>, <<" ">>, <<"\n">> }

RECURSIVE TextsOf(_)
TextsOf(n) ==
    IF n = 0 THEN { <<>> }
    ELSE LET shorter == TextsOf(n - 1)
         IN  shorter \cup { t \o p : t \in shorter, p \in Pieces }

ChunkSizes == {10, 70, 210}
Overlaps == {0, 5, 70}

\* a paragraph of 3000 characters without whitespace or sentence
\* punctuation: 800 times "a", then "b", then "c", and 600 times "d"
Paragraph == [i \in 1..3000 |-> <<"a", "b", "c", "d">>[((i - 1) \div 800) + 1]]

\* texts long enough for the configured sizes: a concatenation of at most
\* MaxRuns runs, sentence endings standing where a window of 500 or 1000
\* characters is cut shortest
MaxRuns == 3

Runs500 == Letters(301) \o <<".">>
Runs1000 == Letters(801) \o <<"!">>
LongPieces == { Runs500, Runs1000, Letters(250), <<".">> }

RECURSIVE LongTextsOf(_)
LongTextsOf(n) ==
    IF n = 0 THEN { <<>> }
    ELSE LET shorter == LongTextsOf(n - 1)
         IN  shorter \cup { t \o p : t \in shorter, p \in LongPieces }

\* no call of chunk_text is under way
ChunkerIdle ==
    /\ text = <<>> /\ chunk_size = CHUNK_SIZE /\ overlap = CHUNK_OVERLAP
    /\ start = 0 /\ chunks = <<>> /\ pc = "idle" /\ visited = {}

\* no request is under way
RetrieverIdle ==
    /\ app = "none" /\ question = <<>> /\ store = <<>> /\ top_k = 0
    /\ results = <<>> /\ answer = [kind |-> "none", context |-> <<>>] /\ rpc = "idle"

\* no call of simple_text_similarity is under way
SimilarityIdle ==
    /\ sim_query = <<>> /\ sim_text = <<>> /\ sim_scores = <<>>

\* no run of process_books is under way
BooksIdle ==
    /\ book_files = <<>> /\ encoding = 1 /\ file_idx = 0
    /\ all_chunks = <<>> /\ bpc = "idle" /\ file_results = <<>>

\* no call of extract_chapters is under way
ChaptersIdle ==
    /\ document = <<>> /\ extracted = <<>> /\ epc = "idle"

\* no call of validate_chunks is under way
ValidatorIdle ==
    /\ candidates = <<>> /\ valid_chunks = <<>> /\ vpc = "idle"

\* no call of is_quality_chunk is under way
QualityIdle ==
    /\ quality_chunk = [text |-> <<>>] /\ verdict = FALSE /\ qpc = "idle"

\* no call of generate_embeddings is under way
EmbeddingsIdle ==
    /\ embed_texts = <<>> /\ batch_size = 1 /\ batch_i = 0
    /\ all_embeddings = <<>> /\ gpc = "idle" /\ responses = <<>>

\* no call of upsert_embeddings or search_similar is under way
IndexIdle ==
    /\ upsert_chunks = <<>> /\ upsert_vectors = <<>> /\ datapoint_ids = <<>>
    /\ search_results = <<>> /\ ipc = "idle"

InitChunker ==
    /\ EmbeddingsIdle /\ IndexIdle
    /\ RetrieverIdle /\ SimilarityIdle /\ BooksIdle
    /\ ChaptersIdle /\ ValidatorIdle /\ QualityIdle
    /\ \/ /\ text \in TextsOf(MaxPieces)
          /\ chunk_size \in ChunkSizes
          /\ overlap \in Overlaps
       \/ \* a long text chunked with the defaults of the signature
          /\ text = Paragraph
          /\ chunk_size = CHUNK_SIZE
          /\ overlap = CHUNK_OVERLAP
       \/ \* the two calls of process_book_file: lines 160 and 166
          /\ text \in LongTextsOf(MaxRuns)
          /\ chunk_size \in {CHUNK_SIZE, CHUNK_SIZE \div 2}
          /\ overlap = CHUNK_OVERLAP
    /\ start = 0
    /\ chunks = <<>>
    /\ pc = "call"
    /\ visited = {}

NextChunker == ChunkTextCall \/ ChunkTextIterate

SpecChunker == InitChunker /\ [][NextChunker]_vars

----------------------------------------------------------------------------
(* Python str and re primitives of the retrievers *)

UpperLetters ==
    {"A", "B", "C", "D", "E", "F", "G", "H", "I", "J", "K", "L", "M",
     "N", "O", "P", "Q", "R", "S", "T", "U", "V", "W", "X", "Y", "Z"}
LowerLetters ==
    {"a", "b", "c", "d", "e", "f", "g", "h", "i", "j", "k", "l", "m",
     "n", "o", "p", "q", "r", "s", "t", "u", "v", "w", "x", "y", "z"}
Digits == {"0", "1", "2", "3", "4", "5", "6", "7", "8", "9"}

ToLower ==
    ("A" :> "a") @@ ("B" :> "b") @@ ("C" :> "c") @@ ("D" :> "d") @@
    ("E" :> "e") @@ ("F" :> "f") @@ ("G" :> "g") @@ ("H" :> "h") @@
    ("I" :> "i") @@ ("J" :> "j") @@ ("K" :> "k") @@ ("L" :> "l") @@
    ("M" :> "m") @@ ("N" :> "n") @@ ("O" :> "o") @@ ("P" :> "p") @@
    ("Q" :> "q") @@ ("R" :> "r") @@ ("S" :> "s") @@ ("T" :> "t") @@
    ("U" :> "u") @@ ("V" :> "v") @@ ("W" :> "w") @@ ("X" :> "x") @@
    ("Y" :> "y") @@ ("Z" :> "z")

\* s.lower()
Lower(s) == [i \in 1..Len(s) |-> IF s[i] \in UpperLetters THEN ToLower[s[i]] ELSE s[i]]

\* c.isupper()
IsUpper(c) == c \in UpperLetters

\* the characters the regular expressions \w, \d and \s match
WordChars == LowerLetters \cup UpperLetters \cup Digits \cup {"_"}
IsDigit(c) == c \in Digits
IsSpace(c) == c \in Whitespace

\* The maximal runs <<first, last>> of characters of s that are in the set
\* cs (inside = TRUE) or outside it (inside = FALSE): the matches of a
\* pattern such as \w+ or \d+, the items of s.split() or of re.split.
InRun(c, cs, inside) == (c \in cs) = inside

RunFirsts(s, cs, inside) ==
    { i \in 1..Len(s) :
        InRun(s[i], cs, inside) /\ (i = 1 \/ ~InRun(s[i - 1], cs, inside)) }

RunLasts(s, cs, inside) ==
    { j \in 1..Len(s) :
        InRun(s[j], cs, inside) /\ (j = Len(s) \/ ~InRun(s[j + 1], cs, inside)) }

Runs(s, cs, inside) ==
    { r \in RunFirsts(s, cs, inside) \X RunLasts(s, cs, inside) :
        r[1] <= r[2] /\ \A k \in r[1]..r[2] : InRun(s[k], cs, inside) }

\* set(re.findall(r'\w+', s))
WordSet(s) == { SubSeq(s, r[1], r[2]) : r \in Runs(s, WordChars, TRUE) }

\* len(s.split())
WordCount(s) == Cardinality(RunFirsts(s, Whitespace, FALSE))

\* pat occurs in s at index i (1-based)
OccursAt(s, pat, i) ==
    /\ i >= 1
    /\ i + Len(pat) - 1 <= Len(s)
    /\ \A k \in 1..Len(pat) : s[i + k - 1] = pat[k]

\* pat in s
Contains(s, pat) == \E i \in 1..(Len(s) - Len(pat) + 1) : OccursAt(s, pat, i)

\* s.endswith(pat)
EndsWith(s, pat) == OccursAt(s, pat, Len(s) - Len(pat) + 1)

\* s.count(c) for a one-character c
CountChar(s, c) == Cardinality({ i \in 1..Len(s) : s[i] = c })

\* s.replace(old, new): the occurrences are replaced left to right
RECURSIVE Replace(_, _, _)
Replace(s, old, new) ==
    IF ~Contains(s, old) THEN s
    ELSE LET i == CHOOSE i \in 1..Len(s) :
                    OccursAt(s, old, i) /\ \A j \in 1..(i - 1) : ~OccursAt(s, old, j)
         IN  SubSeq(s, 1, i - 1) \o new
               \o Replace(SubSeq(s, i + Len(old), Len(s)), old, new)

\* ' '.join(s.split()): the items of s.split() in order, one space between
RECURSIVE JoinRuns(_, _, _)
JoinRuns(s, firsts, lasts) ==
    IF firsts = {} THEN <<>>
    ELSE LET i == CHOOSE x \in firsts : \A y \in firsts : x <= y
             j == CHOOSE x \in lasts : \A y \in lasts : x <= y
             rest == JoinRuns(s, firsts \ {i}, lasts \ {j})
         IN  SubSeq(s, i, j) \o (IF rest = <<>> THEN <<>> ELSE <<" ">> \o rest)

NormalizeSpaces(s) ==
    JoinRuns(s, RunFirsts(s, Whitespace, FALSE), RunLasts(s, Whitespace, FALSE))

----------------------------------------------------------------------------
(* Scores.  A Python float score is held as the exact fraction num/den     *)
(* (den > 0) it rounds: the quotient of two small integers, or that plus a *)
(* multiple of 1/100.                                                      *)

Frac(n, d) == [num |-> n, den |-> d]
FracEq(a, b) == a.num * b.den = b.num * a.den
FracLess(a, b) == a.num * b.den < b.num * a.den
FracAdd(a, b) == Frac(a.num * b.den + b.num * a.den, a.den * b.den)
FracMin(a, b) == IF FracLess(b, a) THEN b ELSE a

----------------------------------------------------------------------------
(* simple_text_similarity: frontend/api_server.py and its two copies *)

\* lines 59-70 with 1.0 returned where a word set is empty
simple_text_similarity_EmptyIsOne(query, t) ==
    LET query_words == WordSet(Lower(query))
        text_words == WordSet(Lower(t))
    IN  IF query_words = {} \/ text_words = {}
        THEN Frac(1, 1)
        ELSE Frac(Cardinality(query_words \cap text_words),
                  Cardinality(query_words \cup text_words))

\* lines 59-70 dividing by len(query_words) + len(text_words)
simple_text_similarity_SumOfSizes(query, t) ==
    LET query_words == WordSet(Lower(query))
        text_words == WordSet(Lower(t))
    IN  IF query_words = {} \/ text_words = {}
        THEN Frac(0, 1)
        ELSE Frac(Cardinality(query_words \cap text_words),
                  Cardinality(query_words) + Cardinality(text_words))

\* interactive_rag lines 9-20 without the .lower() calls
rag_simple_text_similarity_CaseSensitive(query, t) ==
    LET query_words == WordSet(query)
        text_words == WordSet(t)
    IN  IF query_words = {} \/ text_words = {}
        THEN Frac(0, 1)
        ELSE Frac(Cardinality(query_words \cap text_words),
                  Cardinality(query_words \cup text_words))

\* frontend/api_server.py lines 59-70
simple_text_similarity(query, t) ==
    LET query_words == WordSet(Lower(query))
        text_words == WordSet(Lower(t))
    IN  IF query_words = {} \/ text_words = {}
        THEN Frac(0, 1)
        ELSE Frac(Cardinality(query_words \cap text_words),
                  Cardinality(query_words \cup text_words))

\* embeddings/interactive_rag.py lines 9-20
rag_simple_text_similarity(query, t) ==
    LET query_words == WordSet(Lower(query))
        text_words == WordSet(Lower(t))
    IN  IF query_words = {} \/ text_words = {}
        THEN Frac(0, 1)
        ELSE Frac(Cardinality(query_words \cap text_words),
                  Cardinality(query_words \cup text_words))

\* embeddings/offline_test.py lines 9-20
offline_simple_text_similarity(query, t) ==
    LET query_words == WordSet(Lower(query))
        text_words == WordSet(Lower(t))
    IN  IF query_words = {} \/ text_words = {}
        THEN Frac(0, 1)
        ELSE Frac(Cardinality(query_words \cap text_words),
                  Cardinality(query_words \cup text_words))

----------------------------------------------------------------------------
(* is_quality_chunk: frontend/api_server.py lines 72-132.  Each rejection  *)
(* check is an operator on the stripped text.                              *)

\* line 77
TooShort(t) == Len(t) < 80

\* lines 81-82: dot_count > len(text) * 0.3
MostlyDots(t) == 10 * CountChar(t, ".") > 3 * Len(t)

\* lines 86-88 with >= for >
MostlyNumbers_AtLeastHalf(t) == 2 * Cardinality(RunFirsts(t, Digits, TRUE)) >= WordCount(t)

\* lines 86-88: len(re.findall(r'\d+', text)) > len(text.split()) * 0.5
MostlyNumbers(t) == 2 * Cardinality(RunFirsts(t, Digits, TRUE)) > WordCount(t)

\* re.search of a.*b: b after a with no newline between ('.' excludes it)
NoNewline(s, from, to) == \A k \in from..to : s[k] # "\n"
SearchGap2(s, a, b) ==
    \E i \in 1..Len(s) :
        /\ OccursAt(s, a, i)
        /\ \E j \in (i + Len(a))..Len(s) :
              OccursAt(s, b, j) /\ NoNewline(s, i + Len(a), j - 1)

\* re.search of a.*b.*c
SearchGap3(s, a, b, c) ==
    \E i \in 1..Len(s) :
        /\ OccursAt(s, a, i)
        /\ \E j \in (i + Len(a))..Len(s) :
              /\ OccursAt(s, b, j)
              /\ NoNewline(s, i + Len(a), j - 1)
              /\ \E k \in (j + Len(b))..Len(s) :
                    OccursAt(s, c, k) /\ NoNewline(s, j + Len(b), k - 1)

\* lines 92-106: the author_bio_patterns, searched in text.lower()
AuthorBio(t) ==
    LET text_lower == Lower(t)
    IN  \/ SearchGap3(text_lower, <<"p", "r", "o", "f", "e", "s", "s", "o", "r", " ", "o", "f">>, <<"a", "t">>, <<"u", "n", "i", "v", "e", "r", "s", "i", "t", "y">>)
        \/ Contains(text_lower, <<"e", "d", "i", "t", "o", "r", "-", "i", "n", "-", "c", "h", "i", "e", "f">>)
        \/ Contains(text_lower, <<"h", "e", " ", "l", "i", "v", "e", "s", " ", "i", "n">>)
        \/ Contains(text_lower, <<"s", "h", "e", " ", "l", "i", "v", "e", "s", " ", "i", "n">>)
        \/ SearchGap2(text_lower, <<"p", "h", "d">>, <<"u", "n", "i", "v", "e", "r", "s", "i", "t", "y">>)
        \/ SearchGap2(text_lower, <<"a", "u", "t", "h", "o", "r", " ", "o", "f">>, <<"b", "o", "o", "k">>)
        \/ Contains(text_lower, <<"c", "o", "-", "d", "i", "r", "e", "c", "t", "o", "r", " ", "o", "f">>)
        \/ SearchGap2(text_lower, <<"d", "i", "r", "e", "c", "t", "o", "r", " ", "o", "f">>, <<"c", "e", "n", "t", "r", "e">>)
        \/ Contains(text_lower, <<"v", "i", "s", "i", "t", "i", "n", "g", " ", "p", "r", "o", "f", "e", "s", "s", "o", "r">>)

\* r'\d+\s*$': a digit with nothing but whitespace after it
TocTrailingNumber(t) ==
    \E i \in 1..Len(t) : IsDigit(t[i]) /\ \A k \in (i + 1)..Len(t) : IsSpace(t[k])

\* the index '$' can match at: the end, or just before a final newline
EndAnchors(t) ==
    {Len(t)} \cup (IF Len(t) > 0 /\ t[Len(t)] = "\n" THEN {Len(t) - 1} ELSE {})

\* r'^[A-Z\s]+\d+$' under re.IGNORECASE
TocCapsNumber(t) ==
    \E a \in 1..Len(t) : \E b \in EndAnchors(t) :
        /\ a < b
        /\ \A k \in 1..a : t[k] \in UpperLetters \cup LowerLetters \cup Whitespace
        /\ \A k \in (a + 1)..b : IsDigit(t[k])

\* r'chapter\s+\d+[:\s]*$' under re.IGNORECASE
TocChapterHeader(t) ==
    LET lowered == Lower(t) IN
    \E i \in 1..Len(t) :
        /\ OccursAt(lowered, <<"c", "h", "a", "p", "t", "e", "r">>, i)
        /\ \E a \in (i + 8)..Len(t) : \E b \in a..Len(t) :
              /\ \A k \in (i + 7)..(a - 1) : IsSpace(t[k])
              /\ \A k \in a..b : IsDigit(t[k])
              /\ \A k \in (b + 1)..Len(t) : t[k] = ":" \/ IsSpace(t[k])

\* r'page\s+\d+' under re.IGNORECASE
TocPageReference(t) ==
    LET lowered == Lower(t) IN
    \E i \in 1..Len(t) :
        /\ OccursAt(lowered, <<"p", "a", "g", "e">>, i)
        /\ \E a \in (i + 5)..Len(t) :
              /\ \A k \in (i + 4)..(a - 1) : IsSpace(t[k])
              /\ IsDigit(t[a])

\* lines 109-118: the toc_patterns
TableOfContents(t) ==
    \/ Contains(t, <<".", ".", ".">>)
    \/ TocTrailingNumber(t)
    \/ TocCapsNumber(t)
    \/ TocChapterHeader(t)
    \/ TocPageReference(t)

\* line 121
DanglingTokens ==
    { <<"o", "f">>, <<"t", "h", "e">>, <<"a", "n", "d">>, <<"o", "r">>, <<"i", "n">>,
      <<"a", "t">>, <<"t", "o">>, <<"f", "o", "r">>, <<"w", "i", "t", "h">>, <<"b", "y">> }
DanglingEnd(t) == \E tok \in DanglingTokens : EndsWith(t, tok)

\* lines 125-127: re.split(r'[.!?]+', text) and the complete sentences
CompleteSentences(t) ==
    { r \in Runs(t, {".", "!", "?"}, FALSE) :
        LET piece == Strip(SubSeq(t, r[1], r[2]))
        IN  Len(piece) > 20 /\ IsUpper(piece[1]) }
FewSentences(t) == Cardinality(CompleteSentences(t)) < 2

\* lines 131-132
FewWords(t) == WordCount(t) < 30

\* lines 72-132 without lines 120-122
is_quality_chunk_NoDanglingCheck(chunk) ==
    LET t == Strip(chunk.text)
    IN  /\ ~TooShort(t)
        /\ ~MostlyDots(t)
        /\ ~MostlyNumbers(t)
        /\ ~AuthorBio(t)
        /\ ~TableOfContents(t)
        /\ ~FewSentences(t)
        /\ ~FewWords(t)

\* lines 72-132: each check that holds returns False, the last line returns
\* word_count >= 30
is_quality_chunk(chunk) ==
    LET t == Strip(chunk.text)
    IN  /\ ~TooShort(t)
        /\ ~MostlyDots(t)
        /\ ~MostlyNumbers(t)
        /\ ~AuthorBio(t)
        /\ ~TableOfContents(t)
        /\ ~DanglingEnd(t)
        /\ ~FewSentences(t)
        /\ ~FewWords(t)

----------------------------------------------------------------------------
(* Inputs of the retrievers: chunk texts, chunks and questions *)

\* "Consciousness is the ground of all being and it shapes the way we ..."
TextMind ==
    <<"C", "o", "n", "s", "c", "i", "o", "u", "s", "n", "e", "s", "s", " ",
      "i", "s", " ", "t", "h", "e", " ", "g", "r", "o", "u", "n", "d", " ",
      "o", "f", " ", "a", "l", "l", " ", "b", "e", "i", "n", "g", " ", "a",
      "n", "d", " ", "i", "t", " ", "s", "h", "a", "p", "e", "s", " ", "t",
      "h", "e", " ", "w", "a", "y", " ", "w", "e", " ", "m", "e", "e", "t",
      " ", "t", "h", "e", " ", "w", "o", "r", "l", "d", ".", " ", "T", "h",
      "e", " ", "m", "i", "n", "d", " ", "a", "n", "d", " ", "t", "h", "e",
      " ", "b", "o", "d", "y", " ", "a", "r", "e", " ", "o", "n", "e", " ",
      "w", "h", "o", "l", "e", " ", "t", "h", "a", "t", " ", "m", "o", "v",
      "e", "s", " ", "t", "h", "r", "o", "u", "g", "h", " ", "l", "i", "f",
      "e", " ", "w", "i", "t", "h", " ", "a", "w", "a", "r", "e", "n", "e",
      "s", "s", " ", "a", "n", "d", " ", "c", "a", "r", "e", " ", "f", "o",
      "r", " ", "o", "t", "h", "e", "r", "s", ".">>

\* "Meditation is a daily practice that opens the mind to awareness. W..."
TextPractice ==
    <<"M", "e", "d", "i", "t", "a", "t", "i", "o", "n", " ", "i", "s", " ",
      "a", " ", "d", "a", "i", "l", "y", " ", "p", "r", "a", "c", "t", "i",
      "c", "e", " ", "t", "h", "a", "t", " ", "o", "p", "e", "n", "s", " ",
      "t", "h", "e", " ", "m", "i", "n", "d", " ", "t", "o", " ", "a", "w",
      "a", "r", "e", "n", "e", "s", "s", ".", " ", "W", "e", " ", "s", "i",
      "t", " ", "i", "n", " ", "s", "i", "l", "e", "n", "c", "e", " ", "a",
      "n", "d", " ", "w", "a", "t", "c", "h", " ", "e", "a", "c", "h", " ",
      "t", "h", "o", "u", "g", "h", "t", " ", "r", "i", "s", "e", " ", "a",
      "n", "d", " ", "f", "a", "l", "l", " ", "l", "i", "k", "e", " ", "a",
      " ", "w", "a", "v", "e", " ", "o", "n", " ", "t", "h", "e", " ", "s",
      "e", "a", " ", "u", "n", "t", "i", "l", " ", "t", "h", "e", " ", "h",
      "e", "a", "r", "t", " ", "i", "s", " ", "c", "a", "l", "m", ".">>

\* "Bob writes extensively about consciousness and awareness."
TextBob ==
    <<"B", "o", "b", " ", "w", "r", "i", "t", "e", "s", " ", "e", "x", "t",
      "e", "n", "s", "i", "v", "e", "l", "y", " ", "a", "b", "o", "u", "t",
      " ", "c", "o", "n", "s", "c", "i", "o", "u", "s", "n", "e", "s", "s",
      " ", "a", "n", "d", " ", "a", "w", "a", "r", "e", "n", "e", "s", "s",
      ".">>

\* "Robert De Filippis is a visiting professor who writes about consci..."
TextBio ==
    <<"R", "o", "b", "e", "r", "t", " ", "D", "e", " ", "F", "i", "l", "i",
      "p", "p", "i", "s", " ", "i", "s", " ", "a", " ", "v", "i", "s", "i",
      "t", "i", "n", "g", " ", "p", "r", "o", "f", "e", "s", "s", "o", "r",
      " ", "w", "h", "o", " ", "w", "r", "i", "t", "e", "s", " ", "a", "b",
      "o", "u", "t", " ", "c", "o", "n", "s", "c", "i", "o", "u", "s", "n",
      "e", "s", "s", ".", " ", "H", "e", " ", "l", "i", "v", "e", "s", " ",
      "i", "n", " ", "a", " ", "s", "m", "a", "l", "l", " ", "t", "o", "w",
      "n", " ", "a", "n", "d", " ", "s", "p", "e", "n", "d", "s", " ", "h",
      "i", "s", " ", "d", "a", "y", "s", " ", "w", "i", "t", "h", " ", "b",
      "o", "o", "k", "s", " ", "a", "n", "d", " ", "l", "o", "n", "g", " ",
      "w", "a", "l", "k", "s", " ", "b", "y", " ", "t", "h", "e", " ", "s",
      "e", "a", " ", "w", "i", "t", "h", " ", "o", "l", "d", " ", "f", "r",
      "i", "e", "n", "d", "s", ".">>

\* "Every garden needs water and light before any seed can grow. Plant..."
TextGarden ==
    <<"E", "v", "e", "r", "y", " ", "g", "a", "r", "d", "e", "n", " ", "n",
      "e", "e", "d", "s", " ", "w", "a", "t", "e", "r", " ", "a", "n", "d",
      " ", "l", "i", "g", "h", "t", " ", "b", "e", "f", "o", "r", "e", " ",
      "a", "n", "y", " ", "s", "e", "e", "d", " ", "c", "a", "n", " ", "g",
      "r", "o", "w", ".", " ", "P", "l", "a", "n", "t", " ", "y", "o", "u",
      "r", " ", "r", "o", "w", "s", " ", "e", "a", "r", "l", "y", " ", "i",
      "n", " ", "s", "p", "r", "i", "n", "g", " ", "a", "n", "d", " ", "k",
      "e", "e", "p", " ", "y", "o", "u", "r", " ", "s", "o", "i", "l", " ",
      "l", "o", "o", "s", "e", " ", "s", "o", " ", "t", "h", "a", "t", " ",
      "r", "o", "o", "t", "s", " ", "c", "a", "n", " ", "r", "e", "a", "c",
      "h", " ", "d", "o", "w", "n", " ", "d", "e", "e", "p", " ", "f", "o",
      "r", " ", "m", "a", "n", "y", " ", "y", "e", "a", "r", "s", ".">>

\* "consciousness"
QueryConsciousness ==
    <<"c", "o", "n", "s", "c", "i", "o", "u", "s", "n", "e", "s", "s">>

\* "What is MEDITATION, what is awareness?"
QueryMeditation ==
    <<"W", "h", "a", "t", " ", "i", "s", " ", "M", "E", "D", "I", "T", "A",
      "T", "I", "O", "N", ",", " ", "w", "h", "a", "t", " ", "i", "s", " ",
      "a", "w", "a", "r", "e", "n", "e", "s", "s", "?">>

\* "quantum zzz"
QueryNoMatch ==
    <<"q", "u", "a", "n", "t", "u", "m", " ", "z", "z", "z">>

\* "?!"
QueryPunctuation ==
    <<"?", "!">>

\* "the mind The Mind"
QueryMind ==
    <<"t", "h", "e", " ", "m", "i", "n", "d", " ", "T", "h", "e", " ", "M",
      "i", "n", "d">>

\* The chunks a store is drawn from: dicts of a chunks.json with the fields
\* the retrievers read and the indices (word_count = len(text.split()) as
\* process_book_file writes it, chunk_index idx held as <<idx>>), and one
\* dict without a word_count.
TitleMind == <<"m", "i", "n", "d">>
TitleBob == <<"b", "o", "b">>
TitleGarden == <<"g", "a", "r", "d", "e", "n">>
FullText == <<"F", "u", "l", "l", " ", "T", "e", "x", "t">>
Unknown == <<"U", "n", "k", "n", "o", "w", "n">>

ChunkOf(title, idx, t) ==
    [book_title |-> title, chapter |-> FullText, chapter_index |-> 0,
     chunk_index |-> <<idx>>, text |-> t, word_count |-> WordCount(t)]

ChunkPool ==
    { ChunkOf(TitleMind, 0, TextMind),
      ChunkOf(TitleMind, 1, TextPractice),
      ChunkOf(TitleBob, 0, TextBob),
      ChunkOf(TitleBob, 1, TextBio),
      ChunkOf(TitleGarden, 0, TextGarden),
      [book_title |-> TitleGarden, chapter |-> FullText, chapter_index |-> 0,
       chunk_index |-> <<1>>, text |-> TextPractice] }

Queries ==
    { QueryConsciousness, QueryMeditation, QueryNoMatch, QueryPunctuation,
      QueryMind }

\* Tables of the pure functions over the chunks and questions of the model,
\* evaluated once (@@ turns the function into its explicit table).
EmptyTable == [x \in {} |-> 0]

QualityTable == [c \in ChunkPool |-> is_quality_chunk(c)] @@ EmptyTable
Quality(chunk) == QualityTable[chunk]

PoolTexts == { c.text : c \in ChunkPool }
SimilarityTable ==
    [p \in Queries \X PoolTexts |-> simple_text_similarity(p[1], p[2])]
        @@ EmptyTable
Similarity(q, t) == SimilarityTable[<<q, t>>]

RagSimilarityTable ==
    [p \in Queries \X PoolTexts |-> rag_simple_text_similarity(p[1], p[2])]
        @@ EmptyTable
RagSimilarity(q, t) == RagSimilarityTable[<<q, t>>]

----------------------------------------------------------------------------
(* search_books, generate_answer and the report of interactive_rag.main *)

\* a descending sort that puts x before the pairs of an equal score
InsertByScore_BeforeEquals(sorted, x) ==
    LET lower == { i \in 1..Len(sorted) : ~FracLess(x[2], sorted[i][2]) }
        k == IF lower = {} THEN Len(sorted) + 1
             ELSE CHOOSE i \in lower : \A j \in lower : i <= j
    IN  SubSeq(sorted, 1, k - 1) \o <<x>> \o SubSeq(sorted, k, Len(sorted))

\* list.sort(key=lambda x: x[1], reverse=True), a stable sort: x goes in
\* before the first pair of a lower score, after every pair of an equal one
InsertByScore(sorted, x) ==
    LET lower == { i \in 1..Len(sorted) : FracLess(sorted[i][2], x[2]) }
        k == IF lower = {} THEN Len(sorted) + 1
             ELSE CHOOSE i \in lower : \A j \in lower : i <= j
    IN  SubSeq(sorted, 1, k - 1) \o <<x>> \o SubSeq(sorted, k, Len(sorted))

RECURSIVE SortByScore(_)
SortByScore(pairs) ==
    IF pairs = <<>> THEN <<>>
    ELSE InsertByScore(SortByScore(SubSeq(pairs, 1, Len(pairs) - 1)),
                       pairs[Len(pairs)])

\* api_server line 143 without the min: chunk.get('word_count', 0) / 100
word_count_boost_NoCap(chunk) ==
    LET word_count == IF "word_count" \in DOMAIN chunk THEN chunk.word_count ELSE 0
    IN  Frac(word_count, 100)

\* api_server line 143: min(chunk.get('word_count', 0) / 100, 0.3)
word_count_boost(chunk) ==
    LET word_count == IF "word_count" \in DOMAIN chunk THEN chunk.word_count ELSE 0
    IN  FracMin(Frac(word_count, 100), Frac(3, 10))

\* A (chunk, score) pair of the code holds a reference to a dict of the
\* store; the model holds the position of that dict in the store.

\* api_server lines 139-145
AdjustedPair(q, cs, i) ==
    <<i, FracAdd(Similarity(q, cs[i].text), word_count_boost(cs[i]))>>

\* lines 134-149 scoring every chunk of the store
search_books_NoFilter(q, cs, k) ==
    LET similarities == [i \in 1..Len(cs) |-> AdjustedPair(q, cs, i)]
    IN  PySlice(SortByScore(similarities), 0, k)

\* api_server lines 134-149
search_books(q, cs, k) ==
    LET IsQualityAt(i) == Quality(cs[i])
        quality_chunks == SelectSeq([i \in 1..Len(cs) |-> i], IsQualityAt)
        similarities == [n \in 1..Len(quality_chunks) |->
                           AdjustedPair(q, cs, quality_chunks[n])]
    IN  PySlice(SortByScore(similarities), 0, k)

\* interactive_rag lines 22-31
rag_search_books(q, cs, k) ==
    LET similarities == [i \in 1..Len(cs) |-> <<i, RagSimilarity(q, cs[i].text)>>]
    IN  PySlice(SortByScore(similarities), 0, k)

\* api_server lines 160-168: the clean-up of a chunk's text
CleanText(t) ==
    LET t1 == Strip(Replace(Replace(t, <<"R", "o", "b", "e", "r", "t", " ", "D", "e", " ", "F", "i", "l", "i", "p", "p", "i", "s">>, <<>>), <<"\n">>, <<" ">>))
        t2 == NormalizeSpaces(t1)
        t3 == Replace(Replace(t2, <<" ", "-", " ">>, <<" ">>), <<" ", " ">>, <<" ">>)
        t4 == Replace(Replace(t3, <<"f", "o", " ", "u", "n", "d">>, <<"f", "o", "u", "n", "d">>), <<"z", "e", " ", "r", "o">>, <<"z", "e", "r", "o">>)
    IN  Replace(t4, <<"s", "i", "g", "n", "i", "f", "i", "c", " ", "a", "n", "t">>, <<"s", "i", "g", "n", "i", "f", "i", "c", "a", "n", "t">>)

CleanTable == [t \in PoolTexts |-> CleanText(t)] @@ EmptyTable
Cleaned(t) == CleanTable[t]

\* api_server lines 157-175
ContextPiece(chunk) ==
    [text |-> Cleaned(chunk.text),
     book |-> IF "book_title" \in DOMAIN chunk THEN chunk.book_title ELSE Unknown,
     chapter |-> IF "chapter" \in DOMAIN chunk THEN chunk.chapter ELSE Unknown]

\* line 159: similarity > 0.1
UsableScore(pair) == FracLess(Frac(1, 10), pair[2])

\* lines 157-175: the pairs whose cleaned text is appended to context_pieces
context_pieces(cs, relevant_chunks) ==
    LET Appended(pair) == UsableScore(pair) /\ Len(ContextPiece(cs[pair[1]]).text) > 50
    IN  SelectSeq(relevant_chunks, Appended)

\* api_server line 153 and interactive_rag line 73:
\* not results or results[0][1] == 0
NoMatch(pairs) == pairs = <<>> \/ pairs[1][2].num = 0

\* the positions of the chunks of a sequence of pairs
ChunksOf(pairs) == [n \in 1..Len(pairs) |-> pairs[n][1]]

\* api_server lines 151-232; llm is what the chat-completion call does, and
\* context the chunks whose pieces are put into its prompt
generate_answer(q, cs, relevant_chunks, llm) ==
    IF NoMatch(relevant_chunks) THEN [kind |-> "no_match", context |-> <<>>]
    ELSE IF context_pieces(cs, relevant_chunks) = <<>>
    THEN [kind |-> "no_context", context |-> <<>>]
    ELSE [kind |-> llm,
          context |-> ChunksOf(PySlice(context_pieces(cs, relevant_chunks), 0, 3))]

\* interactive_rag lines 73-85; context the chunks that are printed
main_report(pairs) ==
    IF NoMatch(pairs) THEN [kind |-> "no_relevant", context |-> <<>>]
    ELSE [kind |-> "presented", context |-> ChunksOf(pairs)]

\* api_server.chat line 251
ApiSearchBooks ==
    /\ app = "api_server" /\ rpc = "request"
    /\ results' = search_books(question, store, top_k)
    /\ rpc' = "searched"
    /\ UNCHANGED <<app, question, store, top_k, answer>>
    /\ UNCHANGED <<chunkerVars, similarityVars, booksVars, chaptersVars, validatorVars, qualityVars,
                   embeddingsVars, indexVars>>

\* api_server.chat line 254: the chat-completion call answers or raises
ApiGenerateAnswer ==
    /\ app = "api_server" /\ rpc = "searched"
    /\ \E llm \in {"llm_answer", "llm_apology"} :
          answer' = generate_answer(question, store, results, llm)
    /\ rpc' = "answered"
    /\ UNCHANGED <<app, question, store, top_k, results>>
    /\ UNCHANGED <<chunkerVars, similarityVars, booksVars, chaptersVars, validatorVars, qualityVars,
                   embeddingsVars, indexVars>>

\* interactive_rag.main line 71
RagSearchBooks ==
    /\ app = "interactive_rag" /\ rpc = "request"
    /\ results' = rag_search_books(question, store, top_k)
    /\ rpc' = "searched"
    /\ UNCHANGED <<app, question, store, top_k, answer>>
    /\ UNCHANGED <<chunkerVars, similarityVars, booksVars, chaptersVars, validatorVars, qualityVars,
                   embeddingsVars, indexVars>>

\* interactive_rag.main lines 73-85
RagMainReport ==
    /\ app = "interactive_rag" /\ rpc = "searched"
    /\ answer' = main_report(results)
    /\ rpc' = "answered"
    /\ UNCHANGED <<app, question, store, top_k, results>>
    /\ UNCHANGED <<chunkerVars, similarityVars, booksVars, chaptersVars, validatorVars, qualityVars,
                   embeddingsVars, indexVars>>

----------------------------------------------------------------------------
(* The stores and requests of the model *)

\* a store holds at most MaxStore chunks, all different
MaxStore == 3
\* top_k ranges over 0..MaxTopK
MaxTopK == 3

RECURSIVE StoresOf(_)
StoresOf(n) ==
    IF n = 0 THEN { <<>> }
    ELSE LET shorter == StoresOf(n - 1)
         IN  shorter \cup
             { Append(s, c) : s \in { x \in shorter : Len(x) = n - 1 },
                              c \in ChunkPool }

Distinct(s) == \A i, j \in 1..Len(s) : i # j => s[i] # s[j]

Stores == { s \in StoresOf(MaxStore) : Distinct(s) }

InitRetriever ==
    /\ EmbeddingsIdle /\ IndexIdle
    /\ ChunkerIdle /\ SimilarityIdle /\ BooksIdle
    /\ ChaptersIdle /\ ValidatorIdle /\ QualityIdle
    /\ app \in {"api_server", "interactive_rag"}
    /\ question \in Queries
    /\ store \in Stores
    /\ top_k \in 0..MaxTopK
    /\ results = <<>>
    /\ answer = [kind |-> "none", context |-> <<>>]
    /\ rpc = "request"

NextRetriever ==
    ApiSearchBooks \/ ApiGenerateAnswer \/ RagSearchBooks \/ RagMainReport

SpecRetriever == InitRetriever /\ [][NextRetriever]_vars

----------------------------------------------------------------------------
(* simple_text_similarity called on its own: each of the three copies of   *)
(* the function is called once on the same pair of strings.                *)

\* a string of the calls is a phrase of at most MaxWords words, a string of
\* punctuation, or one of the two strings of the consciousness example
MaxWords == 2

SimTokens == { <<"M", "i", "n", "d">>, <<"m", "i", "n", "d">>, <<"t", "h", "e">> }

RECURSIVE PhrasesOf(_)
PhrasesOf(n) ==
    IF n = 0 THEN { <<>> }
    ELSE LET shorter == PhrasesOf(n - 1)
         IN  shorter \cup SimTokens
               \cup { p \o <<" ">> \o w : p \in shorter \ { <<>> }, w \in SimTokens }

SimStrings ==
    PhrasesOf(MaxWords) \cup { QueryPunctuation, QueryConsciousness, TextBob }

\* frontend/api_server.py line 141: the call of simple_text_similarity
ApiSimilarity ==
    /\ "api_server" \notin DOMAIN sim_scores
    /\ sim_scores' = sim_scores @@
                        ("api_server" :> simple_text_similarity(sim_query, sim_text))
    /\ UNCHANGED <<sim_query, sim_text>>
    /\ UNCHANGED <<chunkerVars, retrieverVars, booksVars, chaptersVars, validatorVars, qualityVars,
                   embeddingsVars, indexVars>>

\* embeddings/interactive_rag.py line 26
RagSimilarityCall ==
    /\ "interactive_rag" \notin DOMAIN sim_scores
    /\ sim_scores' = sim_scores @@
                        ("interactive_rag" :> rag_simple_text_similarity(sim_query, sim_text))
    /\ UNCHANGED <<sim_query, sim_text>>
    /\ UNCHANGED <<chunkerVars, retrieverVars, booksVars, chaptersVars, validatorVars, qualityVars,
                   embeddingsVars, indexVars>>

\* embeddings/offline_test.py line 55
OfflineSimilarity ==
    /\ "offline_test" \notin DOMAIN sim_scores
    /\ sim_scores' = sim_scores @@
                        ("offline_test" :> offline_simple_text_similarity(sim_query, sim_text))
    /\ UNCHANGED <<sim_query, sim_text>>
    /\ UNCHANGED <<chunkerVars, retrieverVars, booksVars, chaptersVars, validatorVars, qualityVars,
                   embeddingsVars, indexVars>>

InitSimilarity ==
    /\ EmbeddingsIdle /\ IndexIdle
    /\ ChunkerIdle /\ RetrieverIdle /\ BooksIdle
    /\ ChaptersIdle /\ ValidatorIdle /\ QualityIdle
    /\ sim_query \in SimStrings
    /\ sim_text \in SimStrings
    /\ sim_scores = <<>>

NextSimilarity == ApiSimilarity \/ RagSimilarityCall \/ OfflineSimilarity

SpecSimilarity == InitSimilarity /\ [][NextSimilarity]_vars

----------------------------------------------------------------------------
(* TextProcessor.extract_chapters: embeddings/text_processor.py 67-124     *)

\* the end of the longest run of characters of cs that starts at index from
\* (from - 1 when s[from] is not in cs): where a greedy \s*, \d+ ... stops
RunEnd(s, from, cs) ==
    CHOOSE j \in (from - 1)..Len(s) :
        /\ \A k \in from..j : s[k] \in cs
        /\ j = Len(s) \/ s[j + 1] \notin cs

LastChar(s) == SubSeq(s, Len(s), Len(s))

\* What (.+)$ captures after the greedy prefix that ends at index greedy and
\* can give back characters down to index least: the rest of the line, or
\* the last character of the line when the prefix has taken the whole line
\* and gives one back; <<>> when there is no match.
CaptureRest(line, least, greedy) ==
    IF greedy < Len(line) THEN SubSeq(line, greedy + 1, Len(line))
    ELSE IF greedy > least THEN LastChar(line)
    ELSE <<>>

\* match.group(1) of re.match(pattern, line, re.IGNORECASE) for each of the
\* chapter_patterns (lines 80-85); <<>> when the pattern does not match

\* r'^Chapter\s+\d+[:\s]*(.+)$'
ChapterPattern(line) ==
    LET spaces == RunEnd(line, 8, Whitespace)
        digits == RunEnd(line, spaces + 1, Digits)
        colons == RunEnd(line, digits + 1, {":"} \cup Whitespace)
    IN  IF OccursAt(Lower(line), <<"c", "h", "a", "p", "t", "e", "r">>, 1) /\ spaces >= 8 /\ digits > spaces
        THEN CaptureRest(line, spaces + 1, colons)
        ELSE <<>>

\* r'^\d+[.\s]*(.+)$'
NumberPattern(line) ==
    LET digits == RunEnd(line, 1, Digits)
        dots == RunEnd(line, digits + 1, {"."} \cup Whitespace)
    IN  IF digits >= 1 THEN CaptureRest(line, 1, dots) ELSE <<>>

\* r'^#\s*(.+)$'
MarkdownPattern(line) ==
    IF OccursAt(line, <<"#">>, 1)
    THEN CaptureRest(line, 1, RunEnd(line, 2, Whitespace))
    ELSE <<>>

\* r'^\*\*(.+)\*\*$'
BoldPattern(line) ==
    IF Len(line) >= 5 /\ OccursAt(line, <<"*", "*">>, 1) /\ EndsWith(line, <<"*", "*">>)
    THEN SubSeq(line, 3, Len(line) - 2)
    ELSE <<>>

\* lines 98-112: the capture of the first pattern that matches the line
HeaderGroup(line) ==
    IF ChapterPattern(line) # <<>> THEN ChapterPattern(line)
    ELSE IF NumberPattern(line) # <<>> THEN NumberPattern(line)
    ELSE IF MarkdownPattern(line) # <<>> THEN MarkdownPattern(line)
    ELSE BoldPattern(line)

\* lines 87-94: the lines of text.split('\n'), stripped, the empty ones
\* skipped
RECURSIVE LinesFrom(_, _, _)
LinesFrom(s, firsts, lasts) ==
    IF firsts = {} THEN <<>>
    ELSE LET i == CHOOSE x \in firsts : \A y \in firsts : x <= y
             j == CHOOSE x \in lasts : \A y \in lasts : x <= y
             line == Strip(SubSeq(s, i, j))
         IN  (IF line = <<>> THEN <<>> ELSE <<line>>)
               \o LinesFrom(s, firsts \ {i}, lasts \ {j})

StrippedLines(s) ==
    LinesFrom(s, RunFirsts(s, {"\n"}, FALSE), RunLasts(s, {"\n"}, FALSE))

\* The element of a singleton set: { e(x) : x \in {v} } has the one element
\* e(v), and v is evaluated once however often e reads x.
TheOne(S) == CHOOSE x \in S : TRUE

\* lines 102-106 and 118-122: if current_chapter: chapters.append(...)
SaveChapter(st) ==
    IF st.current_chapter # <<>>
    THEN Append(st.chapters, [title |-> st.current_chapter,
                              content |-> st.current_content])
    ELSE st.chapters

\* lines 91-115: one pass of the for loop over the lines, from the locals
\* st to the locals after it.  current_chapter is only tested for truth, so
\* None is held as ''.  current_content is held as
\* '\n'.join(current_content): its items are not empty, so the list is empty
\* exactly when the joined string is.
LineStep(line, st) ==
    IF HeaderGroup(line) # <<>>
    THEN [current_chapter |-> Strip(HeaderGroup(line)),
          current_content |-> <<>>,
          chapters |-> SaveChapter(st)]
    ELSE [current_chapter |-> st.current_chapter,
          current_content |-> IF st.current_content = <<>> THEN line
                              ELSE st.current_content \o <<"\n">> \o line,
          chapters |-> st.chapters]

\* lines 91-122: the for loop from the n-th line on, and the last chapter
RECURSIVE ChapterScan(_, _, _)
ChapterScan(lines, n, st) ==
    IF n > Len(lines) THEN SaveChapter(st)
    ELSE TheOne({ ChapterScan(lines, n + 1, next) :
                    next \in { LineStep(lines[n], st) } })

extract_chapters(t) ==
    TheOne({ ChapterScan(lines, 1, [current_chapter |-> <<>>,
                                    current_content |-> <<>>,
                                    chapters |-> <<>>]) :
               lines \in { StrippedLines(t) } })

----------------------------------------------------------------------------
(* The files of the books directory *)

\* "The mind is calm and the heart is open when we sit in silence. "
Sentence ==
    <<"T", "h", "e", " ", "m", "i", "n", "d", " ", "i", "s", " ", "c", "a",
      "l", "m", " ", "a", "n", "d", " ", "t", "h", "e", " ", "h", "e", "a",
      "r", "t", " ", "i", "s", " ", "o", "p", "e", "n", " ", "w", "h", "e",
      "n", " ", "w", "e", " ", "s", "i", "t", " ", "i", "n", " ", "s", "i",
      "l", "e", "n", "c", "e", ".", " ">>

Repeat(s, n) == [i \in 1..(n * Len(s)) |-> s[((i - 1) % Len(s)) + 1]]

\* "Chapter 1: Origins\n<Sentence>\n\nChapter 2: Growth\n<60 letters>\n"
PartsText ==
    <<"C", "h", "a", "p", "t", "e", "r", " ", "1", ":", " ", "O", "r", "i", "g", "i", "n", "s", "\n">> \o Sentence \o <<"\n", "\n", "C", "h", "a", "p", "t", "e", "r", " ", "2", ":", " ", "G", "r", "o", "w", "t", "h", "\n">>
        \o Letters(60) \o <<"\n">>

PathLong == <<"b", "o", "o", "k", "s", "/", "l", "o", "n", "g", ".", "t", "x", "t">>
PathParts == <<"b", "o", "o", "k", "s", "/", "p", "a", "r", "t", "s", ".", "m", "d">>
PathShort == <<"b", "o", "o", "k", "s", "/", "s", "h", "o", "r", "t", ".", "t", "x", "t">>
PathEssay == <<"b", "o", "o", "k", "s", "/", "e", "s", "s", "a", "y", ".", "p", "d", "f">>
PathBroken == <<"b", "o", "o", "k", "s", "/", "b", "r", "o", "k", "e", "n", ".", "p", "d", "f">>
PathMissing == <<"b", "o", "o", "k", "s", "/", "m", "i", "s", "s", "i", "n", "g", ".", "t", "x", "t">>
PathBlank == <<"b", "o", "o", "k", "s", "/", "b", "l", "a", "n", "k", ".", "t", "x", "t">>
PathLongMd == <<"a", "r", "c", "h", "i", "v", "e", "/", "l", "o", "n", "g", ".", "m", "d">>

\* what is on disk: the content of a text file, the pages of a PDF file and
\* whether PyPDF2 reads it without an exception
Disk ==
    (PathLong :> [content |-> Repeat(Sentence, 20)]) @@
    (PathParts :> [content |-> PartsText]) @@
    (PathShort :> [content |-> <<"T", "o", "o", " ", "s", "h", "o", "r", "t", ".">>]) @@
    (PathEssay :> [readable |-> TRUE, pages |-> <<Sentence, Letters(60)>>]) @@
    (PathBroken :> [readable |-> FALSE, pages |-> <<>>]) @@
    (PathBlank :> [content |-> <<" ", "\n", "\n", " ">>]) @@
    (PathLongMd :> [content |-> Repeat(Sentence, 2)])

Paths ==
    { PathLong, PathParts, PathShort, PathEssay, PathBroken, PathMissing,
      PathBlank, PathLongMd }

\* tiktoken is not part of the repository: an encoding is held as the
\* number of tokens it makes of one character
Encodings == {1, 9, 20}

----------------------------------------------------------------------------
(* TextProcessor.process_book_file and validate_chunks, and                *)
(* BookProcessor.process_books                                             *)

\* text_processor.py lines 16-18
count_tokens(enc, t) == enc * Len(t)

\* chunk_text run to its end: lines 32-65
RECURSIVE ChunkLoop(_, _, _, _, _)
ChunkLoop(t, size, ov, st, acc) ==
    LET r == ChunkIteration(t, size, ov, st, acc)
    IN  IF r.pc = "loop" THEN ChunkLoop(t, size, ov, r.start, r.chunks) ELSE r

chunk_text(t, size, ov) ==
    IF Strip(t) = <<>> THEN [pc |-> "returned", start |-> 0, chunks |-> <<>>]
    ELSE ChunkLoop(t, size, ov, 0, <<>>)

\* lines 218-240: text += page.extract_text() + "\n" for each page, or ""
RECURSIVE JoinPages(_)
JoinPages(pages) ==
    IF pages = <<>> THEN <<>>
    ELSE Head(pages) \o <<"\n">> \o JoinPages(Tail(pages))

extract_pdf_text(path) ==
    IF Disk[path].readable THEN JoinPages(Disk[path].pages) ELSE <<>>

\* os.path.basename(file_path)
BaseName(path) ==
    LET slashes == { i \in 1..Len(path) : path[i] = "/" }
    IN  IF slashes = {} THEN path
        ELSE SubSeq(path, 1 + (CHOOSE i \in slashes : \A j \in slashes : j <= i),
                    Len(path))

\* line 148
BookTitle(path) ==
    Replace(Replace(Replace(BaseName(path), <<".", "t", "x", "t">>, <<>>), <<".", "m", "d">>, <<>>), <<".", "p", "d", "f">>, <<>>)

\* lines 168-176 and 178-186: the dict of a chunk.  chunk_index is held as
\* <<chunk_idx>> for the int and <<chunk_idx, sub_idx>> for the str
\* f"{chunk_idx}_{sub_idx}"
ChunkDict(enc, book_title, chapter_title, chapter_idx, index, t) ==
    [book_title |-> book_title, chapter |-> chapter_title,
     chapter_index |-> chapter_idx, chunk_index |-> index, text |-> t,
     word_count |-> WordCount(t), token_count |-> count_tokens(enc, t)]

\* lines 164-186 emitting the chunk that is too large as well as its parts
ChunkDicts_KeepsOversized(enc, book_title, chapter_title, chapter_idx, chunk_idx, chunk) ==
    IF count_tokens(enc, chunk) > MAX_CHUNK_SIZE
    THEN TheOne({
           [pc |-> sub.pc,
            chunks |-> << ChunkDict(enc, book_title, chapter_title, chapter_idx,
                                    <<chunk_idx>>, chunk) >>
                       \o [n \in 1..Len(sub.chunks) |->
                             ChunkDict(enc, book_title, chapter_title, chapter_idx,
                                       <<chunk_idx, n - 1>>, sub.chunks[n])]] :
           sub \in { chunk_text(chunk, CHUNK_SIZE \div 2, CHUNK_OVERLAP) } })
    ELSE [pc |-> "returned",
          chunks |-> << ChunkDict(enc, book_title, chapter_title, chapter_idx,
                                  <<chunk_idx>>, chunk) >>]

\* lines 164-186: what one chunk of a chapter adds to all_chunks
ChunkDicts(enc, book_title, chapter_title, chapter_idx, chunk_idx, chunk) ==
    IF count_tokens(enc, chunk) > MAX_CHUNK_SIZE
    THEN TheOne({
           [pc |-> sub.pc,
            chunks |-> [n \in 1..Len(sub.chunks) |->
                          ChunkDict(enc, book_title, chapter_title, chapter_idx,
                                    <<chunk_idx, n - 1>>, sub.chunks[n])]] :
           sub \in { chunk_text(chunk, CHUNK_SIZE \div 2, CHUNK_OVERLAP) } })
    ELSE [pc |-> "returned",
          chunks |-> << ChunkDict(enc, book_title, chapter_title, chapter_idx,
                                  <<chunk_idx>>, chunk) >>]

\* lines 162-186: the for loop over chapter_chunks from its n-th chunk on;
\* acc is what the loop has added to all_chunks
RECURSIVE ChunkDictsFrom(_, _, _, _, _, _, _)
ChunkDictsFrom(enc, book_title, chapter_title, chapter_idx, chapter_chunks, n, acc) ==
    IF n > Len(chapter_chunks) THEN [pc |-> "returned", chunks |-> acc]
    ELSE TheOne({
           IF d.pc = "raised" THEN [pc |-> "raised", chunks |-> <<>>]
           ELSE ChunkDictsFrom(enc, book_title, chapter_title, chapter_idx,
                               chapter_chunks, n + 1, acc \o d.chunks) :
           d \in { ChunkDicts(enc, book_title, chapter_title, chapter_idx,
                              n - 1, chapter_chunks[n]) } })

\* lines 160-186: what one chapter adds to all_chunks
ChapterDicts(enc, book_title, chapter, chapter_idx) ==
    TheOne({
      IF whole.pc = "raised" THEN [pc |-> "raised", chunks |-> <<>>]
      ELSE ChunkDictsFrom(enc, book_title, chapter.title, chapter_idx,
                          whole.chunks, 1, <<>>) :
      whole \in { chunk_text(chapter.content, CHUNK_SIZE, CHUNK_OVERLAP) } })

\* lines 159-186: the for loop over the chapters from the c-th on
RECURSIVE ChapterDictsFrom(_, _, _, _, _)
ChapterDictsFrom(enc, book_title, chapters, c, acc) ==
    IF c > Len(chapters) THEN [pc |-> "returned", chunks |-> acc]
    ELSE TheOne({
           IF d.pc = "raised" THEN [pc |-> "raised", chunks |-> <<>>]
           ELSE ChapterDictsFrom(enc, book_title, chapters, c + 1, acc \o d.chunks) :
           d \in { ChapterDicts(enc, book_title, chapters[c], c - 1) } })

\* lines 139-146: the content read from the file
FileContent(path) ==
    IF EndsWith(Lower(path), <<".", "p", "d", "f">>) THEN extract_pdf_text(path)
    ELSE Disk[path].content

\* lines 150-155 with another title for the one chapter
ChaptersOrFullText_Untitled(content) ==
    TheOne({ IF found = <<>>
             THEN << [title |-> Unknown, content |-> content] >>
             ELSE found :
               found \in { extract_chapters(content) } })

\* lines 150-155: the chapters, or the whole content as one chapter
ChaptersOrFullText(content) ==
    TheOne({ IF found = <<>>
             THEN << [title |-> FullText, content |-> content] >>
             ELSE found :
               found \in { extract_chapters(content) } })

\* lines 126-188 raising when no content was read
process_book_file_RaisesOnEmpty(enc, path) ==
    IF path \notin DOMAIN Disk \/ FileContent(path) = <<>>
    THEN [pc |-> "raised", chunks |-> <<>>]
    ELSE TheOne({ ChapterDictsFrom(enc, BookTitle(path), chapters, 1, <<>>) :
                    chapters \in { ChaptersOrFullText(FileContent(path)) } })

\* lines 126-188 without lines 136-137, a file that is not there read as ''
process_book_file_NoExistsCheck(enc, path) ==
    TheOne({ ChapterDictsFrom(enc, BookTitle(path), chapters, 1, <<>>) :
               chapters \in { ChaptersOrFullText(IF path \in DOMAIN Disk
                                                 THEN FileContent(path)
                                                 ELSE <<>>) } })

\* lines 126-188; pc is "raised" when the call ends in an exception
process_book_file(enc, path) ==
    IF path \notin DOMAIN Disk THEN [pc |-> "raised", chunks |-> <<>>]
    ELSE TheOne({ ChapterDictsFrom(enc, BookTitle(path), chapters, 1, <<>>) :
                    chapters \in { ChaptersOrFullText(FileContent(path)) } })

\* lines 190-216 appending every chunk
validate_chunks_NoFilter(cs) == cs

\* lines 202-214: the chunk is appended to valid_chunks
ValidChunk(chunk) ==
    /\ ~(chunk.word_count < 10)
    /\ ~(chunk.token_count > MAX_CHUNK_SIZE)
    /\ {"book_title", "chapter", "text"} \subseteq DOMAIN chunk

\* text_processor.py lines 190-216
validate_chunks(cs) == SelectSeq(cs, ValidChunk)

\* The chunks process_book_file makes of the files of the model, evaluated
\* once.
ProcessedTable ==
    [p \in Encodings \X Paths |-> process_book_file(p[1], p[2])] @@ EmptyTable
Processed(enc, path) == ProcessedTable[<<enc, path>>]

\* book_processor.py lines 46-58: an empty list returns at once
ProcessBooksCall ==
    /\ bpc = "call"
    /\ bpc' = IF book_files = <<>> THEN "returned" ELSE "loop"
    /\ file_idx' = 0
    /\ all_chunks' = <<>>
    /\ UNCHANGED <<book_files, encoding, file_results>>
    /\ UNCHANGED <<chunkerVars, retrieverVars, similarityVars, chaptersVars, validatorVars, qualityVars,
                   embeddingsVars, indexVars>>

\* lines 60-74 without the try/except of lines 62-71: the exception of
\* process_book_file leaves process_books
ProcessBooksIterate_NoTry ==
    /\ bpc = "loop"
    /\ LET r == Processed(encoding, book_files[file_idx + 1])
       IN  /\ all_chunks' = IF r.pc = "raised" THEN all_chunks
                             ELSE all_chunks \o validate_chunks(r.chunks)
           /\ file_results' = Append(file_results, r)
           /\ bpc' = IF r.pc = "raised" THEN "raised"
                     ELSE IF file_idx + 1 = Len(book_files) THEN "returned"
                     ELSE "loop"
    /\ file_idx' = file_idx + 1
    /\ UNCHANGED <<book_files, encoding>>
    /\ UNCHANGED <<chunkerVars, retrieverVars, similarityVars, chaptersVars, validatorVars, qualityVars,
                   embeddingsVars, indexVars>>

\* lines 60-74: one pass of the for loop, and the return after the last
ProcessBooksIterate ==
    /\ bpc = "loop"
    /\ LET r == Processed(encoding, book_files[file_idx + 1])
       IN  /\ all_chunks' = IF r.pc = "raised" THEN all_chunks
                             ELSE all_chunks \o validate_chunks(r.chunks)
           /\ file_results' = Append(file_results, r)
    /\ file_idx' = file_idx + 1
    /\ bpc' = IF file_idx + 1 = Len(book_files) THEN "returned" ELSE "loop"
    /\ UNCHANGED <<book_files, encoding>>
    /\ UNCHANGED <<chunkerVars, retrieverVars, similarityVars, chaptersVars, validatorVars, qualityVars,
                   embeddingsVars, indexVars>>

\* book_files holds at most MaxBooks paths
MaxBooks == 2

RECURSIVE PathListsOf(_)
PathListsOf(n) ==
    IF n = 0 THEN { <<>> }
    ELSE LET shorter == PathListsOf(n - 1)
         IN  shorter \cup { Append(l, p) : l \in shorter, p \in Paths }

PathLists == PathListsOf(MaxBooks)

InitBooks ==
    /\ EmbeddingsIdle /\ IndexIdle
    /\ ChunkerIdle /\ RetrieverIdle /\ SimilarityIdle
    /\ ChaptersIdle /\ ValidatorIdle /\ QualityIdle
    /\ book_files \in PathLists
    /\ encoding \in Encodings
    /\ file_idx = 0
    /\ all_chunks = <<>>
    /\ file_results = <<>>
    /\ bpc = "call"

NextBooks == ProcessBooksCall \/ ProcessBooksIterate

SpecBooks == InitBooks /\ [][NextBooks]_vars

----------------------------------------------------------------------------
(* Calls of TextProcessor.extract_chapters *)

\* "Chapter 1: Origins\nText A.\n"
BlockOrigins ==
    <<"C", "h", "a", "p", "t", "e", "r", " ", "1", ":", " ", "O", "r", "i",
      "g", "i", "n", "s", "\n", "T", "e", "x", "t", " ", "A", ".", "\n">>

\* "\nChapter 2: Growth\nText B."
BlockGrowth ==
    <<"\n", "C", "h", "a", "p", "t", "e", "r", " ", "2", ":", " ", "G", "r",
      "o", "w", "t", "h", "\n", "T", "e", "x", "t", " ", "B", ".">>

\* "\n** **\nText C.\n"
BlockBlankBold ==
    <<"\n", "*", "*", " ", "*", "*", "\n", "T", "e", "x", "t", " ", "C",
      ".", "\n">>

\* "  # Notes  \n\n"
BlockNotes ==
    <<" ", " ", "#", " ", "N", "o", "t", "e", "s", " ", " ", "\n", "\n">>

\* "Text D.\n12. twelve\n"
BlockNumbered ==
    <<"T", "e", "x", "t", " ", "D", ".", "\n", "1", "2", ".", " ", "t", "w",
      "e", "l", "v", "e", "\n">>

\* "Text E.\n"
BlockPreface == <<"T", "e", "x", "t", " ", "E", ".", "\n">>

Blocks ==
    { BlockOrigins, BlockGrowth, BlockBlankBold, BlockNotes, BlockNumbered,
      BlockPreface }

\* a document is a concatenation of at most MaxBlocks blocks
MaxBlocks == 3

RECURSIVE DocumentsOf(_)
DocumentsOf(n) ==
    IF n = 0 THEN { <<>> }
    ELSE LET shorter == DocumentsOf(n - 1)
         IN  shorter \cup { d \o b : d \in shorter, b \in Blocks }

Documents == DocumentsOf(MaxBlocks)

\* text_processor.py lines 67-124
ExtractChaptersCall ==
    /\ epc = "call"
    /\ extracted' = extract_chapters(document)
    /\ epc' = "returned"
    /\ UNCHANGED document
    /\ UNCHANGED <<chunkerVars, retrieverVars, similarityVars, booksVars, validatorVars, qualityVars,
                   embeddingsVars, indexVars>>

InitChapters ==
    /\ EmbeddingsIdle /\ IndexIdle
    /\ ChunkerIdle /\ RetrieverIdle /\ SimilarityIdle /\ BooksIdle
    /\ ValidatorIdle /\ QualityIdle
    /\ document \in Documents
    /\ extracted = <<>>
    /\ epc = "call"

NextChapters == ExtractChaptersCall

SpecChapters == InitChapters /\ [][NextChapters]_vars

----------------------------------------------------------------------------
(* Calls of TextProcessor.validate_chunks *)

\* chunk dicts a caller can pass: as process_book_file makes them, with
\* empty strings for the required fields, and with keys left out
CandidateGood == ChunkDict(1, TitleMind, FullText, 0, <<0>>, Sentence)
CandidateShort == ChunkDict(1, TitleMind, FullText, 0, <<1>>, <<"T", "o", "o", " ", "s", "h", "o", "r", "t", ".">>)
CandidateLong == ChunkDict(200, TitleMind, FullText, 0, <<2>>, Sentence)
CandidateUntitled == ChunkDict(1, <<>>, FullText, 0, <<0>>, Sentence)
CandidateEmpty ==
    [book_title |-> TitleBob, chapter |-> <<>>, chapter_index |-> 0,
     chunk_index |-> <<0>>, text |-> <<>>, word_count |-> 10, token_count |-> 10]
CandidateNoTitle ==
    [chapter |-> FullText, chapter_index |-> 0, chunk_index |-> <<0>>,
     text |-> Sentence, word_count |-> 14, token_count |-> 63]
CandidateNoWordCount ==
    [book_title |-> TitleBob, chapter |-> FullText, text |-> Sentence,
     token_count |-> 63]
CandidateNoTokenCount ==
    [book_title |-> TitleBob, chapter |-> FullText, text |-> Sentence,
     word_count |-> 14]

CandidatePool ==
    { CandidateGood, CandidateShort, CandidateLong, CandidateUntitled,
      CandidateEmpty, CandidateNoTitle, CandidateNoWordCount,
      CandidateNoTokenCount }

\* the argument holds at most MaxCandidates chunks
MaxCandidates == 2

RECURSIVE CandidateListsOf(_)
CandidateListsOf(n) ==
    IF n = 0 THEN { <<>> }
    ELSE LET shorter == CandidateListsOf(n - 1)
         IN  shorter \cup { Append(l, c) : l \in shorter, c \in CandidatePool }

CandidateLists == CandidateListsOf(MaxCandidates)

\* lines 204 and 208: chunk['word_count'] and chunk['token_count'] raise a
\* KeyError when the key is absent; line 208 is reached only past line 204
ValidChunkRaises(chunk) ==
    \/ "word_count" \notin DOMAIN chunk
    \/ ~(chunk.word_count < 10) /\ "token_count" \notin DOMAIN chunk

\* text_processor.py lines 190-216: the for loop comes to every chunk unless
\* an earlier one raised, so the call raises exactly when some chunk does
ValidateChunksCall ==
    /\ vpc = "call"
    /\ IF \E n \in 1..Len(candidates) : ValidChunkRaises(candidates[n])
       THEN vpc' = "raised" /\ valid_chunks' = <<>>
       ELSE vpc' = "returned" /\ valid_chunks' = validate_chunks(candidates)
    /\ UNCHANGED candidates
    /\ UNCHANGED <<chunkerVars, retrieverVars, similarityVars, booksVars, chaptersVars, qualityVars,
                   embeddingsVars, indexVars>>

InitValidator ==
    /\ EmbeddingsIdle /\ IndexIdle
    /\ ChunkerIdle /\ RetrieverIdle /\ SimilarityIdle /\ BooksIdle
    /\ ChaptersIdle /\ QualityIdle
    /\ candidates \in CandidateLists
    /\ valid_chunks = <<>>
    /\ vpc = "call"

NextValidator == ValidateChunksCall

SpecValidator == InitValidator /\ [][NextValidator]_vars

----------------------------------------------------------------------------
(* Calls of is_quality_chunk *)

\* "Consciousness is the ground of all being and it shapes the way we meet each day. "
PartGround ==
    <<"C", "o", "n", "s", "c", "i", "o", "u", "s", "n", "e", "s", "s", " ",
      "i", "s", " ", "t", "h", "e", " ", "g", "r", "o", "u", "n", "d", " ",
      "o", "f", " ", "a", "l", "l", " ", "b", "e", "i", "n", "g", " ", "a",
      "n", "d", " ", "i", "t", " ", "s", "h", "a", "p", "e", "s", " ", "t",
      "h", "e", " ", "w", "a", "y", " ", "w", "e", " ", "m", "e", "e", "t",
      " ", "e", "a", "c", "h", " ", "d", "a", "y", ".", " ">>

\* "1 ........... 2 ........... 3 ..........."
PartToc ==
    <<"1", " ", ".", ".", ".", ".", ".", ".", ".", ".", ".", ".", ".", " ",
      "2", " ", ".", ".", ".", ".", ".", ".", ".", ".", ".", ".", ".", " ",
      "3", " ", ".", ".", ".", ".", ".", ".", ".", ".", ".", ".", ".">>

\* "\nHe lives in Rome. "
PartBio ==
    <<"\n", "H", "e", " ", "l", "i", "v", "e", "s", " ", "i", "n", " ", "R",
      "o", "m", "e", ".", " ">>

\* "So we return to the"
PartDangling ==
    <<"S", "o", " ", "w", "e", " ", "r", "e", "t", "u", "r", "n", " ", "t",
      "o", " ", "t", "h", "e">>

\* "See page 12 and 3 4 5 6 7 8 9? "
PartPage ==
    <<"S", "e", "e", " ", "p", "a", "g", "e", " ", "1", "2", " ", "a", "n",
      "d", " ", "3", " ", "4", " ", "5", " ", "6", " ", "7", " ", "8", " ",
      "9", "?", " ">>

Parts == { PartGround, PartToc, PartBio, PartDangling, PartPage }

\* the text of a chunk is a concatenation of at most MaxParts parts
MaxParts == 3

RECURSIVE ChunkTextsOf(_)
ChunkTextsOf(n) ==
    IF n = 0 THEN { <<>> }
    ELSE LET shorter == ChunkTextsOf(n - 1)
         IN  shorter \cup { t \o q : t \in shorter, q \in Parts }

ChunkTexts == ChunkTextsOf(MaxParts)

\* api_server.py lines 72-132
IsQualityChunkCall ==
    /\ qpc = "call"
    /\ verdict' = is_quality_chunk(quality_chunk)
    /\ qpc' = "returned"
    /\ UNCHANGED quality_chunk
    /\ UNCHANGED <<chunkerVars, retrieverVars, similarityVars, booksVars, chaptersVars, validatorVars,
                   embeddingsVars, indexVars>>

InitQuality ==
    /\ EmbeddingsIdle /\ IndexIdle
    /\ ChunkerIdle /\ RetrieverIdle /\ SimilarityIdle /\ BooksIdle
    /\ ChaptersIdle /\ ValidatorIdle
    /\ quality_chunk \in { [text |-> t] : t \in ChunkTexts }
    /\ verdict = FALSE
    /\ qpc = "call"

NextQuality == IsQualityChunkCall

SpecQuality == InitQuality /\ [][NextQuality]_vars

----------------------------------------------------------------------------
(* VertexEmbeddings.generate_embeddings                                    *)

\* embeddings/config.py line 26
DIMENSIONS == 768

\* line 106: [0.0] * DIMENSIONS
ZeroVector == [d \in 1..DIMENSIONS |-> 0]

\* The embedding service is not part of the repository.  A text is held as a
\* positive number, and the vector the service computes for it as that
\* number DIMENSIONS times.
EmbeddingOf(t) == [d \in 1..DIMENSIONS |-> t]

\* One "prediction" of a response.  wellformed is FALSE for an element that
\* lines 93-94 cannot read: prediction.get or .get("embeddings", {}).get
\* raises, as for {"embeddings": null} or for an element that is no object.
Prediction(t) == [wellformed |-> TRUE, values |-> EmbeddingOf(t)]
Unreadable == [wellformed |-> FALSE, values |-> <<>>]

\* What the service can answer to the request for a batch: lines 88-92
\* raise (no connection, an HTTP error status, a body that is not JSON), or
\* the body is read and holds under "predictions" one prediction for each
\* of the first k texts of the batch, followed or not by an element that
\* cannot be read.
ServiceAnswers(batch_texts) ==
    { [raised |-> TRUE, predictions |-> <<>>] }
    \cup { [raised |-> FALSE,
            predictions |-> [k \in 1..n |-> Prediction(batch_texts[k])]] :
           n \in 0..Len(batch_texts) }
    \cup { [raised |-> FALSE,
            predictions |-> [k \in 1..n |-> Prediction(batch_texts[k])]
                            \o << Unreadable >>] :
           n \in 0..(Len(batch_texts) - 1) }

\* lines 93-95: the vectors appended before the for loop over the
\* predictions ends or raises
ReadPredictions(predictions) ==
    LET bad == { k \in 1..Len(predictions) : ~predictions[k].wellformed }
        upto == IF bad = {} THEN Len(predictions)
                ELSE (CHOOSE k \in bad : \A j \in bad : k <= j) - 1
    IN  [raised |-> bad # {},
         vectors |-> [k \in 1..upto |-> predictions[k].values]]

\* lines 102-106: the zero vectors of the except clause
ZeroVectors(batch_texts) == [k \in 1..Len(batch_texts) |-> ZeroVector]

\* lines 71-106: all_embeddings after the body of the for loop has run for
\* one batch with the answer resp
AfterBatch(acc, batch_texts, resp) ==
    IF resp.raised THEN acc \o ZeroVectors(batch_texts)
    ELSE LET read == ReadPredictions(resp.predictions)
         IN  IF read.raised
             THEN acc \o read.vectors \o ZeroVectors(batch_texts)
             ELSE acc \o read.vectors

\* lines 65-68: range(0, len(texts), batch_size) is empty for no texts
GenerateEmbeddingsCall ==
    /\ gpc = "call"
    /\ all_embeddings' = <<>>
    /\ batch_i' = 0
    /\ gpc' = IF Len(embed_texts) = 0 THEN "returned" ELSE "loop"
    /\ UNCHANGED <<embed_texts, batch_size, responses>>
    /\ UNCHANGED <<chunkerVars, retrieverVars, similarityVars, booksVars, chaptersVars, validatorVars, qualityVars,
                   indexVars>>

\* lines 68-108: one pass of the for loop, and the return after the last
GenerateEmbeddingsBatch ==
    /\ gpc = "loop"
    /\ LET batch_texts == PySlice(embed_texts, batch_i, batch_i + batch_size)
       IN  \E resp \in ServiceAnswers(batch_texts) :
              /\ all_embeddings' = AfterBatch(all_embeddings, batch_texts, resp)
              /\ responses' = Append(responses, resp)
    /\ batch_i' = batch_i + batch_size
    /\ gpc' = IF batch_i + batch_size >= Len(embed_texts) THEN "returned" ELSE "loop"
    /\ UNCHANGED <<embed_texts, batch_size>>
    /\ UNCHANGED <<chunkerVars, retrieverVars, similarityVars, booksVars, chaptersVars, validatorVars, qualityVars,
                   indexVars>>

\* texts holds at most MaxTexts texts, batch_size is at most MaxBatch
MaxTexts == 4
MaxBatch == 3

InitEmbeddings ==
    /\ ChunkerIdle /\ RetrieverIdle /\ SimilarityIdle /\ BooksIdle
    /\ ChaptersIdle /\ ValidatorIdle /\ QualityIdle /\ IndexIdle
    /\ embed_texts \in { [k \in 1..n |-> k] : n \in 0..MaxTexts }
    /\ batch_size \in 1..MaxBatch
    /\ batch_i = 0
    /\ all_embeddings = <<>>
    /\ responses = <<>>
    /\ gpc = "call"

NextEmbeddings == GenerateEmbeddingsCall \/ GenerateEmbeddingsBatch

SpecEmbeddings == InitEmbeddings /\ [][NextEmbeddings]_vars

----------------------------------------------------------------------------
(* VertexEmbeddings.upsert_embeddings and search_similar                   *)

DigitChars == <<"0", "1", "2", "3", "4", "5", "6", "7", "8", "9">>

\* str(n) of an int n >= 0, as the f-string of line 255 formats it
RECURSIVE IntText(_)
IntText(n) ==
    IF n < 10 THEN << DigitChars[n + 1] >>
    ELSE IntText(n \div 10) \o << DigitChars[(n % 10) + 1] >>

\* the text of chunk['chunk_index'] in the f-string: str(chunk_idx) for the
\* int, and the str f"{chunk_idx}_{sub_idx}" itself
IndexText(index) ==
    IF Len(index) = 1 THEN IntText(index[1])
    ELSE IntText(index[1]) \o <<"_">> \o IntText(index[2])

\* line 255: f"{chunk['book_title']}_{chunk['chapter_index']}_{chunk['chunk_index']}"
DatapointId(chunk) ==
    chunk.book_title \o <<"_">> \o IntText(chunk.chapter_index) \o <<"_">>
        \o IndexText(chunk.chunk_index)

\* s.split('_')
RECURSIVE SplitUnderscore(_)
SplitUnderscore(s) ==
    LET at == { i \in 1..Len(s) : s[i] = "_" }
    IN  IF at = {} THEN << s >>
        ELSE LET first == CHOOSE i \in at : \A j \in at : i <= j
             IN  << SubSeq(s, 1, first - 1) >>
                   \o SplitUnderscore(SubSeq(s, first + 1, Len(s)))

\* the value of a str of decimal digits
RECURSIVE DigitsValue(_)
DigitsValue(s) ==
    IF s = <<>> THEN 0
    ELSE 10 * DigitsValue(SubSeq(s, 1, Len(s) - 1))
           + (CHOOSE d \in 0..9 : DigitChars[d + 1] = s[Len(s)])

\* int(s) of line 335: surrounding whitespace and one sign are accepted;
\* anything but digits after that raises ValueError
PyInt(s) ==
    LET t == Strip(s)
        signed == t # <<>> /\ t[1] \in {"+", "-"}
        digits == IF signed THEN Tail(t) ELSE t
    IN  IF digits # <<>> /\ \A i \in 1..Len(digits) : digits[i] \in Digits
        THEN [raised |-> FALSE,
              value |-> IF signed /\ t[1] = "-" THEN 0 - DigitsValue(digits)
                        ELSE DigitsValue(digits)]
        ELSE [raised |-> TRUE, value |-> 0]

\* lines 325-336: the result for one neighbor; parsed is FALSE when the id
\* has fewer than three parts and metadata stays {}
NeighborResult(datapoint_id) ==
    LET parts == SplitUnderscore(datapoint_id)
    IN  IF Len(parts) >= 3
        THEN [raised |-> PyInt(parts[2]).raised,
              datapoint_id |-> datapoint_id,
              metadata |-> [parsed |-> TRUE,
                            book_title |-> parts[1],
                            chapter_index |-> PyInt(parts[2]).value,
                            chunk_index |-> parts[3]]]
        ELSE [raised |-> FALSE,
              datapoint_id |-> datapoint_id,
              metadata |-> [parsed |-> FALSE, book_title |-> <<>>,
                            chapter_index |-> 0, chunk_index |-> <<>>]]

\* lines 237-279: ValueError when the two lists differ in length; else one
\* datapoint per chunk is handed to the index, which is not part of the
\* repository: the model holds the ids handed over
UpsertEmbeddings ==
    /\ ipc = "call"
    /\ IF Len(upsert_chunks) # Len(upsert_vectors)
       THEN ipc' = "upsert_raised" /\ UNCHANGED datapoint_ids
       ELSE /\ ipc' = "upserted"
            /\ datapoint_ids' = [n \in 1..Len(upsert_chunks) |->
                                   DatapointId(upsert_chunks[n])]
    /\ UNCHANGED <<upsert_chunks, upsert_vectors, search_results>>
    /\ UNCHANGED <<chunkerVars, retrieverVars, similarityVars, booksVars, chaptersVars, validatorVars, qualityVars,
                   embeddingsVars>>

\* lines 281-340 for a search whose neighbors are all the datapoints,
\* in the order they were upserted; the ValueError of int() leaves the call
SearchSimilar ==
    /\ ipc = "upserted"
    /\ LET found == [n \in 1..Len(datapoint_ids) |-> NeighborResult(datapoint_ids[n])]
       IN  IF \E n \in 1..Len(found) : found[n].raised
           THEN ipc' = "search_raised" /\ UNCHANGED search_results
           ELSE /\ ipc' = "searched"
                /\ search_results' = [n \in 1..Len(found) |->
                                        [datapoint_id |-> found[n].datapoint_id,
                                         metadata |-> found[n].metadata]]
    /\ UNCHANGED <<upsert_chunks, upsert_vectors, datapoint_ids>>
    /\ UNCHANGED <<chunkerVars, retrieverVars, similarityVars, booksVars, chaptersVars, validatorVars, qualityVars,
                   embeddingsVars>>

\* the chunks to upsert: titles as the file names give them, with and
\* without '_', the chapter and chunk indices of process_book_file
TitleA == <<"a">>
TitleA1 == <<"a", "_", "1">>
TitleMyBook == <<"m", "y", "_", "b", "o", "o", "k">>
Indexes == {0, 1}

IndexedChunks ==
    { [book_title |-> title, chapter_index |-> c, chunk_index |-> index] :
        title \in { TitleA, TitleA1, TitleMyBook },
        c \in Indexes,
        index \in { <<k>> : k \in Indexes } \cup (Indexes \X Indexes) }

\* upsert_embeddings is called with at most MaxUpsert chunks
MaxUpsert == 2

RECURSIVE ChunkListsOf(_)
ChunkListsOf(n) ==
    IF n = 0 THEN { <<>> }
    ELSE LET shorter == ChunkListsOf(n - 1)
         IN  shorter \cup { Append(l, c) : l \in shorter, c \in IndexedChunks }

InitIndex ==
    /\ ChunkerIdle /\ RetrieverIdle /\ SimilarityIdle /\ BooksIdle
    /\ ChaptersIdle /\ ValidatorIdle /\ QualityIdle /\ EmbeddingsIdle
    /\ upsert_chunks \in ChunkListsOf(MaxUpsert)
    /\ upsert_vectors \in { [n \in 1..m |-> n] :
                              m \in {Len(upsert_chunks), Len(upsert_chunks) + 1} }
    /\ datapoint_ids = <<>>
    /\ search_results = <<>>
    /\ ipc = "call"

NextIndex == UpsertEmbeddings \/ SearchSimilar

SpecIndex == InitIndex /\ [][NextIndex]_vars

----------------------------------------------------------------------------
(* Claims about TextProcessor.chunk_text *)

NonBlank(s) == Strip(s) # <<>>

\* C1: for every non-empty text and every 0 <= overlap < chunk_size a call of
\* chunk_text terminates, also when the window end is snapped backward to a
\* sentence-ending character: its while loop never comes back to a state it
\* has been in.
C1_ChunkTextTerminates ==
    (NonBlank(text) /\ 0 <= overlap /\ overlap < chunk_size) => pc # "diverged"

\* C2: called with chunk_size <= overlap, chunk_text fails with a
\* configuration error before it iterates: it never enters its while loop.
C2_FailsFastOnBadConfig ==
    (NonBlank(text) /\ chunk_size <= overlap) => pc \in {"call", "config_error"}

\* C10: every chunk in the list chunk_text builds is trimmed of leading and
\* trailing whitespace and is longer than 50 characters.
C10_ChunksTrimmedAndLong ==
    \A i \in 1..Len(chunks) :
        /\ Len(chunks[i]) > 50
        /\ chunks[i][1] \notin Whitespace
        /\ chunks[i][Len(chunks[i])] \notin Whitespace

\* a call has returned two or more chunks of a text that begins with
\* whitespace and has a sentence end inside: windows were snapped and trimmed
C10_Witness ==
    /\ pc = "returned"
    /\ Len(chunks) >= 2
    /\ text[1] \in Whitespace
    /\ \E i \in 1..Len(text) : <<text[i]>> \in sentence_endings
    /\ \E i \in 1..Len(chunks) : Len(chunks[i]) < chunk_size

\* chunk_text has returned from the call on the 3000-character paragraph
\* with chunk_size 1000 and overlap 200
ParagraphChunked ==
    /\ pc = "returned"
    /\ text = Paragraph /\ chunk_size = 1000 /\ overlap = 200

\* the start of every pass of the while loop, in the order of the passes
WindowStarts == { v[1] : v \in visited }

\* C11 as stated: for a 3000-character text without '.', '!', '?' or
\* whitespace, chunk_text with chunk_size 1000 and overlap 200 terminates,
\* every chunk it returns is exactly 1000 characters long, and successive
\* chunks start 800 characters apart.
C11_ParagraphChunksAreChunkSizeLong ==
    /\ text = Paragraph => pc \in {"call", "loop", "returned"}
    /\ ParagraphChunked =>
          /\ \A n \in 1..Len(chunks) : Len(chunks[n]) = 1000
          /\ WindowStarts = { 800 * (n - 1) : n \in 1..Len(chunks) }

\* C11 as the code has it: the call terminates with four chunks that start
\* 800 characters apart; the first three are exactly 1000 characters long
\* and the last one holds the 600 characters that remain after position 2400.
C11_ParagraphLastChunkIsShorter ==
    /\ text = Paragraph => pc \in {"call", "loop", "returned"}
    /\ ParagraphChunked =>
          /\ Len(chunks) = 4
          /\ WindowStarts = { 800 * (n - 1) : n \in 1..4 }
          /\ \A n \in 1..3 :
                chunks[n] = SubSeq(text, 800 * (n - 1) + 1, 800 * (n - 1) + 1000)
          /\ chunks[4] = SubSeq(text, 2401, 3000)

C11_Witness ==
    /\ ParagraphChunked
    /\ Cardinality(visited) = 4
    /\ Len(chunks[Len(chunks)]) = 600

\* the 0-based positions of t at which a sentence-ending character stands
\* or a blank-line marker (two consecutive newlines) begins
SentenceEndPositions(t) ==
    { i \in 0..(Len(t) - 1) : t[i + 1] \in {".", "!", "?"} }
BlankLinePositions(t) ==
    { i \in 0..(Len(t) - 2) : t[i + 1] = "\n" /\ t[i + 2] = "\n" }

\* the end of the window that starts at st, as the claim has it: just after
\* the occurrence nearest the candidate end among those after
\* max(st + size - 200, st) and up to the candidate end, or the candidate end
SnappedEnd(t, st, size) ==
    LET candidate == st + size
        lowest == Max(st + size - 200, st)
        found == { i \in SentenceEndPositions(t) \cup BlankLinePositions(t) :
                     lowest < i /\ i <= candidate }
        nearest == CHOOSE i \in found : \A j \in found : j <= i
    IN  IF found = {} THEN candidate
        ELSE IF nearest \in SentenceEndPositions(t) THEN nearest + 1
        ELSE nearest + 2

\* C23: for every window that is not the final one (start + chunk_size <
\* len(text)), the window end is snapped to just after the sentence-ending
\* character or blank-line marker nearest the candidate end that occurs
\* between max(start + chunk_size - 200, start) and the candidate end, and
\* is the candidate end when none occurs.
C23_EndSnapsToNearestBoundary ==
    (pc = "loop" /\ start >= 0 /\ start + chunk_size < Len(text)) =>
        WindowEnd(text, start, chunk_size) =
            [kind |-> "ok", end |-> SnappedEnd(text, start, chunk_size)]

\* C24: every chunk chunk_text returns has at most chunk_size characters,
\* also when the end of its window was snapped to a sentence boundary.
C24_ChunksWithinChunkSize ==
    \A n \in 1..Len(chunks) : Len(chunks[n]) <= chunk_size

\* the parameters process_book_file calls chunk_text with
Configured ==
    /\ overlap = CHUNK_OVERLAP
    /\ chunk_size \in {CHUNK_SIZE, CHUNK_SIZE \div 2}

\* C28: with the configured parameters (chunk_size 1000 or 500, overlap
\* 200) the window start of chunk_text is never negative and is greater
\* than the start of every earlier pass of the loop, wherever the sentence
\* endings stand; the loop does not repeat a state and does not raise.
C28_ConfiguredStartIncreases ==
    Configured =>
        /\ pc \notin {"diverged", "raised"}
        /\ start >= 0
        /\ \A v \in visited : v[1] < start

\* a configured call of either size has returned after three or more
\* passes, one of which moved the start by the least the search allows
\* (chunk_size - 200 + 2 - overlap)
C28_Witness ==
    /\ Configured
    /\ pc = "returned"
    /\ Cardinality(visited) >= 3
    /\ \E v \in visited :
          WindowEnd(text, v[1], chunk_size).end - overlap
              = v[1] + chunk_size - 198 - overlap

\* the end of the window of the pass that began at start s
WindowEndOf(s) == WindowEnd(text, s, chunk_size).end

\* the windows of the run: the start and the end of every pass
Windows == { <<s, WindowEndOf(s)>> : s \in WindowStarts }

\* C29: in a run of chunk_text with 0 <= overlap < chunk_size that went
\* through the loop and returned, the first window starts at 0, every later
\* window starts exactly overlap characters before the end of the window
\* before it, the last window reaches the end of the text, and every
\* character position of the text lies in a window.
C29_WindowsLeaveNoGap ==
    (pc = "returned" /\ visited # {} /\ 0 <= overlap /\ overlap < chunk_size) =>
        \A ws \in { Windows } :
            /\ \E w \in ws : w[1] = 0
            /\ \A w \in ws : w[1] >= 0
            /\ \A w \in ws :
                  w[1] # 0 =>
                     \E p \in ws :
                        /\ p[1] < w[1]
                        /\ \A q \in ws : ~(p[1] < q[1] /\ q[1] < w[1])
                        /\ w[1] = p[2] - overlap
            /\ \E w \in ws : w[2] >= Len(text)
            /\ \A i \in 0..(Len(text) - 1) :
                  \E w \in ws : w[1] <= i /\ i < w[2]

\* a run with an overlap has returned after three or more windows, one of
\* them cut at a sentence ending, and has dropped a window of 50 characters
\* or fewer
C29_Witness ==
    /\ pc = "returned"
    /\ 0 < overlap /\ overlap < chunk_size
    /\ Cardinality(WindowStarts) >= 3
    /\ \E s \in WindowStarts : WindowEndOf(s) < s + chunk_size
    /\ Len(chunks) < Cardinality(WindowStarts)

----------------------------------------------------------------------------
(* Claims about simple_text_similarity *)

Copies == {"api_server", "interactive_rag", "offline_test"}

\* the copy c of the function
CopyOf(c, q, t) ==
    CASE c = "api_server" -> simple_text_similarity(q, t)
      [] c = "interactive_rag" -> rag_simple_text_similarity(q, t)
      [] OTHER -> offline_simple_text_similarity(q, t)

HasWordChar(s) == \E i \in 1..Len(s) : s[i] \in WordChars

\* api_server's copy has been called on a string and itself
SelfScored == "api_server" \in DOMAIN sim_scores /\ sim_query = sim_text

\* C4 as stated: simple_text_similarity(q, q) is 1.0 for every non-empty
\* string q, also for one that holds no word character.
C4_SelfSimilarityIsOne ==
    (SelfScored /\ sim_query # <<>>) => FracEq(sim_scores["api_server"], Frac(1, 1))

\* C4 as the code has it: simple_text_similarity(q, q) is 1.0 for every q
\* that holds at least one word character, and 0.0 for every q that holds
\* none.
C4_SelfSimilarityOfWords ==
    SelfScored =>
        IF HasWordChar(sim_query)
        THEN FracEq(sim_scores["api_server"], Frac(1, 1))
        ELSE FracEq(sim_scores["api_server"], Frac(0, 1))

\* a phrase of two different words, one of them capitalised, has been scored
\* against itself
C4_Witness ==
    /\ SelfScored
    /\ HasWordChar(sim_query)
    /\ Cardinality(WordSet(Lower(sim_query))) = 2
    /\ sim_query # Lower(sim_query)
    /\ sim_scores["api_server"] = Frac(2, 2)

\* the items of s.split() in reverse order, one space between
RECURSIVE JoinRunsBackward(_, _, _)
JoinRunsBackward(s, firsts, lasts) ==
    IF firsts = {} THEN <<>>
    ELSE LET i == CHOOSE x \in firsts : \A y \in firsts : x >= y
             j == CHOOSE x \in lasts : \A y \in lasts : x >= y
             rest == JoinRunsBackward(s, firsts \ {i}, lasts \ {j})
         IN  SubSeq(s, i, j) \o (IF rest = <<>> THEN <<>> ELSE <<" ">> \o rest)

WordsReversed(s) ==
    JoinRunsBackward(s, RunFirsts(s, Whitespace, FALSE), RunLasts(s, Whitespace, FALSE))

\* every word of s twice
Doubled(s) == s \o <<" ">> \o s

LowerWords(s) == WordSet(Lower(s))

Jaccard(q, t) ==
    IF LowerWords(q) = {} \/ LowerWords(t) = {}
    THEN Frac(0, 1)
    ELSE Frac(Cardinality(LowerWords(q) \cap LowerWords(t)),
              Cardinality(LowerWords(q) \cup LowerWords(t)))

\* C5: each copy of simple_text_similarity returns 0 when the lowercase word
\* set of either argument is empty and |intersection| / |union| of the two
\* sets otherwise; the value lies in [0, 1], is the same when the words of
\* the arguments are put in another order or repeated, and is the same in
\* the three copies.
C5_JaccardOfLowercaseWordSets ==
    /\ \A c \in DOMAIN sim_scores :
          /\ sim_scores[c] = Jaccard(sim_query, sim_text)
          /\ 0 <= sim_scores[c].num
          /\ sim_scores[c].num <= sim_scores[c].den
          /\ 0 < sim_scores[c].den
          /\ FracEq(CopyOf(c, WordsReversed(sim_query), WordsReversed(sim_text)),
                    sim_scores[c])
          /\ FracEq(CopyOf(c, Doubled(sim_query), Doubled(sim_text)), sim_scores[c])
    /\ \A c, d \in DOMAIN sim_scores : sim_scores[c] = sim_scores[d]

\* the three copies have scored a two-word text against a query that shares
\* one word with it in another case
C5_Witness ==
    /\ DOMAIN sim_scores = Copies
    /\ WordsReversed(sim_text) # sim_text
    /\ WordSet(sim_query) \cap WordSet(sim_text) = {}
    /\ sim_scores["interactive_rag"] = Frac(1, 2)

\* the consciousness example has been scored by api_server's copy
ExampleScored ==
    /\ "api_server" \in DOMAIN sim_scores
    /\ sim_query = QueryConsciousness
    /\ sim_text = TextBob

\* C6 as stated: for the query "consciousness" and the text "Bob writes
\* extensively about consciousness and awareness." simple_text_similarity
\* returns exactly 1/8, one shared word over a union of 8 distinct words.
C6_ExampleIsOneEighth ==
    ExampleScored => sim_scores["api_server"] = Frac(1, 8)

\* C6 as the code has it: for that query and that text
\* simple_text_similarity returns exactly 1/7, one shared word over a union
\* of 7 distinct words.
C6_ExampleIsOneSeventh ==
    ExampleScored =>
        /\ sim_scores["api_server"] = Frac(1, 7)
        /\ Cardinality(LowerWords(sim_query) \cap LowerWords(sim_text)) = 1
        /\ Cardinality(LowerWords(sim_query) \cup LowerWords(sim_text)) = 7

C6_Witness ==
    /\ ExampleScored
    /\ LowerWords(sim_query) = { QueryConsciousness }
    /\ Cardinality(LowerWords(sim_text)) = 7

----------------------------------------------------------------------------
(* Claims about search_books and its callers *)

Searched == rpc \in {"searched", "answered"}
ApiSearched == app = "api_server" /\ Searched

QualityPositions(cs) == { i \in 1..Len(cs) : Quality(cs[i]) }

\* the positions of the chunks search_books has returned
Returned == { results[n][1] : n \in 1..Len(results) }

\* C7: search_books of api_server returns exactly min(top_k, n) pairs, n the
\* number of chunks of the store for which is_quality_chunk is true, and no
\* chunk for which it is false.
C7_QualityChunksUpToTopK ==
    ApiSearched =>
        /\ Len(results) = Min(top_k, Cardinality(QualityPositions(store)))
        /\ Returned \subseteq QualityPositions(store)

\* a search of a store that holds a chunk is_quality_chunk rejects and more
\* than top_k chunks it accepts
C7_Witness ==
    /\ ApiSearched
    /\ \E i \in 1..Len(store) : ~Quality(store[i])
    /\ 0 < top_k
    /\ top_k < Cardinality(QualityPositions(store))
    /\ Len(results) = top_k

\* the chunks search_books ranks, and the score it gives the chunk at i
Survivors == IF app = "api_server" THEN QualityPositions(store) ELSE 1..Len(store)
ScoreAt(i) ==
    IF app = "api_server" THEN AdjustedPair(question, store, i)[2]
    ELSE RagSimilarity(question, store[i].text)

\* C8: the sequence search_books returns is sorted by score in
\* non-increasing order, chunks of exactly equal scores are in their store
\* order, and no ranked chunk that is left out has a score strictly greater
\* than a returned chunk's.
C8_SortedStableTopK ==
    Searched =>
        /\ \A n, m \in 1..Len(results) :
              n < m =>
                /\ ~FracLess(results[n][2], results[m][2])
                /\ FracEq(results[n][2], results[m][2]) => results[n][1] < results[m][1]
        /\ \A i \in Survivors \ Returned : \A n \in 1..Len(results) :
              ~FracLess(results[n][2], ScoreAt(i))

\* a search has returned two chunks of equal score and has left out a ranked
\* chunk of a lower score
C8_Witness ==
    /\ Searched
    /\ \E n, m \in 1..Len(results) : n < m /\ FracEq(results[n][2], results[m][2])
    /\ \E i \in Survivors \ Returned : \E n \in 1..Len(results) :
          FracLess(ScoreAt(i), results[n][2])

\* the question shares no word with any chunk search_books ranks
NoSharedWord ==
    \A i \in Survivors :
        LowerWords(question) \cap LowerWords(store[i].text) = {}

\* C9: when the question shares no word with any retrievable chunk, the
\* caller of search_books (generate_answer of api_server, main of
\* interactive_rag) gives its no-match answer and neither hands a chunk to
\* the answer generator nor presents one.
C9_NoSharedWordIsNoMatch ==
    (rpc = "answered" /\ NoSharedWord) =>
        /\ answer.kind \in {"no_match", "no_relevant"}
        /\ answer.context = <<>>

\* the stored word_count of the chunk is the number of whitespace-delimited
\* words of its text
CountStored(c) == "word_count" \in DOMAIN c /\ c.word_count = WordCount(c.text)

\* the quality chunks of the store in store order, each with its Jaccard
\* score without the bonus
UnboostedPairs ==
    LET IsQualityAt(i) == Quality(store[i])
        quality_chunks == SelectSeq([i \in 1..Len(store) |-> i], IsQualityAt)
    IN  [n \in 1..Len(quality_chunks) |->
           <<quality_chunks[n], Similarity(question, store[quality_chunks[n]].text)>>]

\* the positions of the chunks of a list of (chunk, score) pairs
PositionsOf(pairs) == [n \in 1..Len(pairs) |-> pairs[n][1]]

\* C27: for every chunk search_books of api_server returns whose stored
\* word_count is the number of words of its text, the bonus
\* min(word_count / 100, 0.3) is exactly 0.3, the filter admitting only
\* chunks of 30 words or more; its score is the Jaccard score plus 0.3, at
\* least 0.3 and at most 1.3; and when the counts of all quality chunks are
\* stored so, the ranking is the ranking by the Jaccard score alone.
C27_BonusIsTheCap ==
    ApiSearched =>
        /\ \A n \in 1..Len(results) :
              CountStored(store[results[n][1]]) =>
                  /\ store[results[n][1]].word_count >= 30
                  /\ FracEq(word_count_boost(store[results[n][1]]), Frac(3, 10))
                  /\ FracEq(results[n][2],
                            FracAdd(Similarity(question, store[results[n][1]].text),
                                    Frac(3, 10)))
                  /\ ~FracLess(results[n][2], Frac(3, 10))
                  /\ ~FracLess(Frac(13, 10), results[n][2])
        /\ (\A i \in QualityPositions(store) : CountStored(store[i])) =>
              PositionsOf(results) =
                  PositionsOf(PySlice(SortByScore(UnboostedPairs), 0, top_k))

\* a search has returned two chunks of more than 30 words in another order
\* than their store order, their Jaccard scores being different
C27_Witness ==
    /\ ApiSearched
    /\ \A i \in QualityPositions(store) : CountStored(store[i])
    /\ \E n, m \in 1..Len(results) :
          /\ n < m
          /\ results[n][1] > results[m][1]
          /\ store[results[n][1]].word_count > 30
          /\ store[results[m][1]].word_count > 30
          /\ FracLess(Similarity(question, store[results[m][1]].text),
                      Similarity(question, store[results[n][1]].text))

----------------------------------------------------------------------------
(* Claims about process_books *)

\* C3: every chunk of the list process_books builds and returns has
\* word_count >= 10 and token_count <= MAX_CHUNK_SIZE, whatever the files.
C3_ReturnedChunksAreValid ==
    \A n \in 1..Len(all_chunks) :
        /\ all_chunks[n].word_count >= 10
        /\ all_chunks[n].token_count <= MAX_CHUNK_SIZE

\* the chunks process_book_file makes of the files of book_files
MadeChunks ==
    UNION { { Processed(encoding, book_files[n]).chunks[k] :
                k \in 1..Len(Processed(encoding, book_files[n]).chunks) } :
            n \in 1..Len(book_files) }

\* process_books has returned a list that is not empty, of files of which
\* process_book_file makes a chunk of fewer than 10 words and a chunk of
\* more than MAX_CHUNK_SIZE tokens
C3_Witness ==
    /\ bpc = "returned"
    /\ all_chunks # <<>>
    /\ \E c \in MadeChunks : c.word_count < 10
    /\ \E c \in MadeChunks : c.token_count > MAX_CHUNK_SIZE

\* the files process_books has passed to process_book_file so far
Processing == 1..Len(file_results)

\* the files on disk whose content is empty or only whitespace
BlankFiles == { path \in DOMAIN Disk : Strip(FileContent(path)) = <<>> }

\* C12: an empty or whitespace-only document yields zero chunks and no
\* error: chunk_text returns an empty list for its text, and
\* process_book_file returns an empty list for the file without raising,
\* also when the text is empty because the PDF extraction failed.
C12_BlankDocumentYieldsNoChunks ==
    \A n \in Processing :
        book_files[n] \in BlankFiles =>
            /\ chunk_text(FileContent(book_files[n]), CHUNK_SIZE, CHUNK_OVERLAP).pc = "returned"
            /\ chunk_text(FileContent(book_files[n]), CHUNK_SIZE, CHUNK_OVERLAP).chunks = <<>>
            /\ file_results[n] = [pc |-> "returned", chunks |-> <<>>]

\* a run has processed the PDF that cannot be read and the file of blanks
C12_Witness ==
    /\ bpc = "returned"
    /\ book_files = <<PathBroken, PathBlank>>
    /\ FileContent(PathBroken) = <<>>
    /\ FileContent(PathBlank) # <<>>
    /\ Len(file_results) = 2

\* the files on disk none of whose lines matches a chapter pattern
HeadingFree ==
    { path \in DOMAIN Disk :
        \A i \in 1..Len(StrippedLines(FileContent(path))) :
            HeaderGroup(StrippedLines(FileContent(path))[i]) = <<>> }

\* what lines 157-188 make of the one section "Full Text" that holds the
\* whole content of the file
FullTextTable ==
    [p \in Encodings \X HeadingFree |->
        ChapterDictsFrom(p[1], BookTitle(p[2]),
                         << [title |-> FullText, content |-> FileContent(p[2])] >>,
                         1, <<>>)] @@ EmptyTable

\* C14: when no line of the document matches a heading pattern,
\* process_book_file treats the whole document as one section: every chunk
\* has chapter "Full Text" and chapter_index 0, and the chunks are those of
\* the entire unmodified text of the document.
C14_NoHeadingIsFullText ==
    \A n \in Processing :
        book_files[n] \in HeadingFree =>
            /\ file_results[n] = FullTextTable[<<encoding, book_files[n]>>]
            /\ \A c \in 1..Len(file_results[n].chunks) :
                  /\ file_results[n].chunks[c].chapter = FullText
                  /\ file_results[n].chunks[c].chapter_index = 0

\* a run has processed a file without headings into two or more chunks
C14_Witness ==
    /\ bpc = "returned"
    /\ \E n \in Processing :
          /\ book_files[n] \in HeadingFree
          /\ Len(file_results[n].chunks) >= 2
          /\ extract_chapters(FileContent(book_files[n])) = <<>>

\* the (book_title, chapter_index, chunk_index) triple of a chunk
ChunkKey(c) == <<c.book_title, c.chapter_index, c.chunk_index>>

\* C17: in the chunk list one run of process_books produces no two chunks
\* have the same (book_title, chapter_index, chunk_index) triple, also when
\* files in different directories or with different extensions share a base
\* name.  (Runs over a list that names no file twice.)
C17_ChunkKeysAreUnique ==
    Distinct(book_files) =>
        \A n, m \in 1..Len(all_chunks) :
            n # m => ChunkKey(all_chunks[n]) # ChunkKey(all_chunks[m])

\* C20: process_book_file on a path that does not exist raises before any
\* text is read, segmented or chunked, and no chunk is produced for the
\* path.
C20_MissingFileRaises ==
    /\ \A n \in Processing :
          book_files[n] \notin DOMAIN Disk =>
              file_results[n] = [pc |-> "raised", chunks |-> <<>>]
    /\ (\A n \in 1..Len(book_files) : book_files[n] \notin DOMAIN Disk) =>
          all_chunks = <<>>

\* a run has gone past a missing file and made chunks of the next one
C20_Witness ==
    /\ bpc = "returned"
    /\ book_files = <<PathMissing, PathLong>>
    /\ file_results[1].pc = "raised"
    /\ all_chunks # <<>>

\* the validated chunks of the files from the n-th on that process_book_file
\* succeeds on, file after file
RECURSIVE ValidatedFrom(_)
ValidatedFrom(n) ==
    IF n > Len(book_files) THEN <<>>
    ELSE (IF Processed(encoding, book_files[n]).pc = "raised" THEN <<>>
          ELSE validate_chunks(Processed(encoding, book_files[n]).chunks))
         \o ValidatedFrom(n + 1)

\* C21: a failure while processing one document (a missing file, a PDF
\* that cannot be read) does not abort process_books: the run ends by
\* returning, every document of the list has been passed to
\* process_book_file, and the returned list is exactly the validated chunks
\* of the documents that succeeded, in the order of the file list.
C21_FailureDoesNotAbortTheRun ==
    /\ bpc \in {"call", "loop", "returned"}
    /\ bpc = "returned" =>
          /\ Len(file_results) = Len(book_files)
          /\ \A n \in 1..Len(book_files) :
                file_results[n] = Processed(encoding, book_files[n])
          /\ all_chunks = ValidatedFrom(1)

\* a run has returned the chunks of a file that follows a file that failed:
\* a missing file that raised, or a PDF whose extraction failed
C21_Witness ==
    /\ bpc = "returned"
    /\ \E n, m \in 1..Len(book_files) :
          /\ n < m
          /\ \/ file_results[n].pc = "raised"
             \/ /\ book_files[n] \in DOMAIN Disk
                /\ "readable" \in DOMAIN Disk[book_files[n]]
                /\ ~Disk[book_files[n]].readable
          /\ file_results[m].pc = "returned"
          /\ validate_chunks(file_results[m].chunks) # <<>>
          /\ all_chunks = validate_chunks(file_results[m].chunks)

\* where a chunk dict stands in its document: its chapter, its chunk and,
\* for a part of a chunk that was split again, its part
Position(d) == <<d.chapter_index>> \o d.chunk_index

\* a comes before b in the order by chapter, then chunk, then part
Before(a, b) ==
    \/ \E i \in 1..Min(Len(a), Len(b)) :
          a[i] < b[i] /\ \A j \in 1..(i - 1) : a[j] = b[j]
    \/ Len(a) < Len(b) /\ \A j \in 1..Len(a) : a[j] = b[j]

\* the dicts of the list ds that stand at position pos
DictsAt(ds, pos) == { n \in 1..Len(ds) : Position(ds[n]) = pos }

\* ds holds for the k-th chunk w of the c-th section what the claim says:
\* the chunk itself under the index k - 1 when it is within the ceiling, else
\* not the chunk but each part of its one split at half the chunk size, under
\* the index (k - 1, s - 1), whatever the size of the part
EmittedAsClaimed(enc, ds, c, k, w) ==
    IF count_tokens(enc, w) > MAX_CHUNK_SIZE
    THEN LET parts == chunk_text(w, CHUNK_SIZE \div 2, CHUNK_OVERLAP).chunks
         IN  /\ DictsAt(ds, <<c - 1, k - 1>>) = {}
             /\ \A s \in 1..Len(parts) :
                   \E n \in 1..Len(ds) :
                      /\ DictsAt(ds, <<c - 1, k - 1, s - 1>>) = {n}
                      /\ ds[n].text = parts[s]
                      /\ ds[n].token_count = count_tokens(enc, parts[s])
             /\ \A n \in 1..Len(ds) :
                   (Len(Position(ds[n])) = 3 /\ Position(ds[n])[1] = c - 1
                       /\ Position(ds[n])[2] = k - 1) =>
                           Position(ds[n])[3] < Len(parts)
    ELSE /\ \E n \in 1..Len(ds) :
               DictsAt(ds, <<c - 1, k - 1>>) = {n} /\ ds[n].text = w
         /\ \A n \in 1..Len(ds) :
               ~(Len(Position(ds[n])) = 3 /\ Position(ds[n])[1] = c - 1
                   /\ Position(ds[n])[2] = k - 1)

\* the list ds is what the claim says of the file at path
RechunkedInOrder(enc, path, ds) ==
    LET sections == ChaptersOrFullText(FileContent(path))
        windows == [c \in 1..Len(sections) |->
                      chunk_text(sections[c].content, CHUNK_SIZE, CHUNK_OVERLAP).chunks]
    IN  /\ \A c \in 1..Len(sections) :
              \A k \in 1..Len(windows[c]) :
                 EmittedAsClaimed(enc, ds, c, k, windows[c][k])
        /\ \A n \in 1..Len(ds) :
              /\ Position(ds[n])[1] < Len(sections)
              /\ Position(ds[n])[2] < Len(windows[Position(ds[n])[1] + 1])
        /\ \A n \in 1..(Len(ds) - 1) : Before(Position(ds[n]), Position(ds[n + 1]))

\* RechunkedInOrder of what process_book_file returns, for the files of the
\* model, evaluated once
RechunkedTable ==
    [p \in Encodings \X DOMAIN Disk |->
        RechunkedInOrder(p[1], p[2], Processed(p[1], p[2]).chunks)] @@ EmptyTable

\* C25: process_book_file does not emit a chunk whose token count exceeds
\* MAX_CHUNK_SIZE; it chunks it once more with chunk_size halved and emits
\* every part under the index (chunk_idx, sub_idx), a part that still
\* exceeds the ceiling as it is and without raising.  The chunks are emitted
\* in document order: by chapter, then chunk, then part.
C25_OversizedChunkSplitOnce ==
    \A n \in Processing :
        book_files[n] \in DOMAIN Disk =>
            /\ file_results[n].pc = "returned"
            /\ file_results[n] = Processed(encoding, book_files[n])
            /\ RechunkedTable[<<encoding, book_files[n]>>]

\* a run has processed a file of which a chunk was split into two or more
\* parts and a part is emitted although it exceeds the ceiling, and a file
\* with two sections that have chunks that were not split
C25_Witness ==
    /\ bpc = "returned"
    /\ \E n \in Processing :
          \E a \in 1..Len(file_results[n].chunks) :
             /\ Len(file_results[n].chunks[a].chunk_index) = 2
             /\ file_results[n].chunks[a].chunk_index[2] >= 1
             /\ file_results[n].chunks[a].token_count > MAX_CHUNK_SIZE
    /\ \E n \in Processing :
          \E b \in 1..Len(file_results[n].chunks) :
             Len(file_results[n].chunks[b].chunk_index) = 1
    /\ \E n \in Processing :
          \E a, b \in 1..Len(file_results[n].chunks) :
             file_results[n].chunks[a].chapter_index # file_results[n].chunks[b].chapter_index

----------------------------------------------------------------------------
(* Claims about TextProcessor.extract_chapters *)

\* the non-blank lines of the document, trimmed, and those of them that
\* match a heading pattern
DocumentLines == StrippedLines(document)
HeadingLines == { i \in 1..Len(DocumentLines) : HeaderGroup(DocumentLines[i]) # <<>> }

\* the k-th heading line, and the line the section of the k-th heading ends
\* before
HeadingAt(k) ==
    CHOOSE i \in HeadingLines : Cardinality({ j \in HeadingLines : j <= i }) = k
SectionEnd(k) ==
    IF k < Cardinality(HeadingLines) THEN HeadingAt(k + 1) ELSE Len(DocumentLines) + 1

\* '\n'.join of the lines from the i-th up to but not including the j-th
RECURSIVE JoinLines(_, _, _)
JoinLines(lines, i, j) ==
    IF i >= j THEN <<>>
    ELSE IF i + 1 = j THEN lines[i]
    ELSE lines[i] \o <<"\n">> \o JoinLines(lines, i + 1, j)

\* "Chapter 1: Origins\nText A.\n\nChapter 2: Growth\nText B."
ExampleDocument == BlockOrigins \o BlockGrowth

\* C13: extract_chapters emits exactly one section per heading line, in
\* document order; the title of a section is the text its heading captured
\* and its content is the newline-joined non-blank, non-heading lines
\* between that heading and the next heading or the end of the input.  The
\* example document yields the two sections "Origins" and "Growth".
C13_OneSectionPerHeading ==
    epc = "returned" =>
        /\ Len(extracted) = Cardinality(HeadingLines)
        /\ \A k \in 1..Len(extracted) :
              /\ extracted[k].title = Strip(HeaderGroup(DocumentLines[HeadingAt(k)]))
              /\ extracted[k].content =
                    JoinLines(DocumentLines, HeadingAt(k) + 1, SectionEnd(k))
        /\ document = ExampleDocument =>
              /\ Len(extracted) = 2
              /\ extracted[1].title = <<"O", "r", "i", "g", "i", "n", "s">>
              /\ extracted[2].title = <<"G", "r", "o", "w", "t", "h">>

\* the first heading line of the document, and whether body lines stand
\* before it
FirstHeading == CHOOSE i \in HeadingLines : \A j \in HeadingLines : i <= j
LeadingBody == HeadingLines # {} /\ FirstHeading > 1

\* the document without the lines before its first heading
FromFirstHeading ==
    JoinLines(DocumentLines, FirstHeading, Len(DocumentLines) + 1)

\* C26: when the document has a heading line, the body lines before the
\* first heading are in no section extract_chapters returns, the sections
\* being those of the document without these lines, and so in no chunk: the
\* sections process_book_file chunks are the sections returned, and the
\* whole text with its leading lines is chunked only when no line matches a
\* heading pattern.
C26_LeadingBodyIsDiscarded ==
    (epc = "returned" /\ LeadingBody) =>
        /\ extracted = extract_chapters(FromFirstHeading)
        /\ ChaptersOrFullText(document) = extracted

----------------------------------------------------------------------------
(* Claims about TextProcessor.validate_chunks *)

RequiredFields == {"book_title", "chapter", "text"}

\* C15: validate_chunks drops every chunk whose book_title, chapter or text
\* is missing or empty: no chunk of its output has an absent or empty value
\* for one of the three fields.
C15_RequiredFieldsPresentAndNonEmpty ==
    vpc = "returned" =>
        \A n \in 1..Len(valid_chunks) : \A f \in RequiredFields :
            /\ f \in DOMAIN valid_chunks[n]
            /\ valid_chunks[n][f] # <<>>

\* sub is a subsequence of seq: its items are items of seq in their order
RECURSIVE IsSubsequence(_, _)
IsSubsequence(sub, seq) ==
    IF sub = <<>> THEN TRUE
    ELSE IF seq = <<>> THEN FALSE
    ELSE IF Head(sub) = Head(seq) THEN IsSubsequence(Tail(sub), Tail(seq))
    ELSE IsSubsequence(sub, Tail(seq))

\* C16: validate_chunks never raises on a chunk with malformed or absent
\* fields, an absent word_count or token_count included: the chunk is
\* dropped, the other chunks are still processed, and the output is a
\* subsequence of the input in its order.
C16_NeverRaisesDropsInOrder ==
    /\ vpc # "raised"
    /\ vpc = "returned" => IsSubsequence(valid_chunks, candidates)

----------------------------------------------------------------------------
(* Claims about is_quality_chunk *)

\* the text the checks of is_quality_chunk look at
CheckedText == Strip(quality_chunk.text)

\* is_quality_chunk has returned for the text
\* "1 ........... 2 ........... 3 ..........."
TocScored == qpc = "returned" /\ quality_chunk.text = PartToc

\* C18 as stated: is_quality_chunk rejects the text
\* "1 ........... 2 ........... 3 ...........", and for it both the
\* dot-fraction check and the numeric-fraction check are triggered.
C18_TocTriggersDotsAndNumbers ==
    TocScored =>
        /\ verdict = FALSE
        /\ MostlyDots(CheckedText)
        /\ MostlyNumbers(CheckedText)

\* C18 as the code has it: is_quality_chunk rejects the text; its 33 dots
\* are more than 30% of its 41 characters, so the dot-fraction check is
\* triggered (as is the length check), but its 3 numbers are exactly half
\* of its 6 whitespace-delimited words, not more, so the numeric-fraction
\* check is not.
C18_TocTriggersDotsNotNumbers ==
    TocScored =>
        /\ verdict = FALSE
        /\ MostlyDots(CheckedText)
        /\ TooShort(CheckedText)
        /\ ~MostlyNumbers(CheckedText)

C18_Witness ==
    /\ TocScored
    /\ Len(CheckedText) = 41
    /\ CountChar(CheckedText, ".") = 33
    /\ WordCount(CheckedText) = 6

\* the eight rejection checks in the reverse of the order of the code
SomeCheckHolds(t) ==
    \/ FewWords(t)
    \/ FewSentences(t)
    \/ DanglingEnd(t)
    \/ TableOfContents(t)
    \/ AuthorBio(t)
    \/ MostlyNumbers(t)
    \/ MostlyDots(t)
    \/ TooShort(t)

\* C19: is_quality_chunk returns false whenever at least one of its eight
\* rejection checks holds for the text of the chunk and true only when none
\* holds, whatever the order the checks are evaluated in.
C19_VerdictIsNoCheckHolds ==
    qpc = "returned" => (verdict = ~SomeCheckHolds(CheckedText))

\* a text was rejected that only the dangling-token check rejects, and it
\* is not the first check of the code
C19_Witness ==
    /\ qpc = "returned"
    /\ verdict = FALSE
    /\ DanglingEnd(CheckedText)
    /\ ~TooShort(CheckedText) /\ ~MostlyDots(CheckedText)
    /\ ~MostlyNumbers(CheckedText) /\ ~AuthorBio(CheckedText)
    /\ ~TableOfContents(CheckedText) /\ ~FewSentences(CheckedText)
    /\ ~FewWords(CheckedText)

----------------------------------------------------------------------------
(* Claims about VertexEmbeddings.generate_embeddings *)

\* the number of the batch that holds the n-th text
BatchOf(n) == ((n - 1) \div batch_size) + 1

\* the request for the b-th batch failed: it raised, or its answer could not
\* be read to the end
BatchFailed(b) ==
    \/ responses[b].raised
    \/ ReadPredictions(responses[b].predictions).raised

\* C22: for every list of texts, every batch_size >= 1 and every pattern of
\* failing batches, generate_embeddings goes through all the batches and
\* returns exactly one vector for each text, in the order of the texts, and
\* the vector of every text of a failed batch is the zero vector of length
\* DIMENSIONS.
C22_OneVectorPerText ==
    gpc = "returned" =>
        /\ Len(responses) * batch_size >= Len(embed_texts)
        /\ Len(all_embeddings) = Len(embed_texts)
        /\ \A n \in 1..Len(embed_texts) :
              BatchFailed(BatchOf(n)) =>
                  /\ Len(all_embeddings[n]) = DIMENSIONS
                  /\ all_embeddings[n] = ZeroVector


----------------------------------------------------------------------------
(* Claims about the datapoint ids of VertexEmbeddings *)

\* the (book_title, chapter_index, chunk_index) triple of the n-th chunk
TripleAt(n) ==
    <<upsert_chunks[n].book_title, upsert_chunks[n].chapter_index,
      upsert_chunks[n].chunk_index>>

\* C30: the datapoint id upsert_embeddings builds round-trips through the
\* parser of search_similar: for every chunk, also one with a compound
\* chunk_index or with '_' in its book title, parsing its id does not raise
\* and gives back its book_title, its chapter_index and the text of its
\* chunk_index; and two chunks with different triples never get the same id.
C30_DatapointIdRoundTrips ==
    /\ ipc # "search_raised"
    /\ ipc \in {"upserted", "searched"} =>
          \A n, m \in 1..Len(upsert_chunks) :
             TripleAt(n) # TripleAt(m) => datapoint_ids[n] # datapoint_ids[m]
    /\ ipc = "searched" =>
          \A n \in 1..Len(search_results) :
             /\ search_results[n].metadata.parsed
             /\ search_results[n].metadata.book_title = upsert_chunks[n].book_title
             /\ search_results[n].metadata.chapter_index = upsert_chunks[n].chapter_index
             /\ search_results[n].metadata.chunk_index = IndexText(upsert_chunks[n].chunk_index)
====
